---- MODULE Spec2Model ----
(***************************************************************************)
(* A model of the notebooks and the start script of the repository.        *)
(*                                                                         *)
(*   Spec          the "Bonus: RaySGD + MLflow" notebook, run top to       *)
(*                 bottom in one session; every library call may raise.    *)
(*   SpecRL        the RLlib cells (DQN, PPO): configuration, trainer,     *)
(*                 the train/save/print loop.                              *)
(*   SpecSessions  sessions of the notebooks one after another on the      *)
(*                 same disk.                                              *)
(*   SpecTune      the Tune cell with its trials, and the construction of  *)
(*                 a TFTrainer with its creators.                          *)
(*   SpecStart     the start script.                                       *)
(*   SpecNotebooks each notebook that uses Ray, run top to bottom.         *)
(*   SpecModeling  the modeling notebook: its Dask cells, then its DQN     *)
(*                 cells.                                                  *)
(*   SpecConfig    train_example and train_diamonds called with any batch  *)
(*                 size, up to the construction of the trainer.            *)
(*                                                                         *)
(* The libraries (Ray, RaySGD, Tune, RLlib, MLflow) and the shell tools    *)
(* are the environment: a call returns a value drawn from a small set or   *)
(* raises; the MLflow tracking store is kept as the runs the notebook      *)
(* creates and what it logs to them.                                       *)
(***************************************************************************)
EXTENDS Integers, Sequences, FiniteSets, TLC

\* ----------------------------------------------------------------- bounds
\* Losses returned by validate() and train() range over 0..MaxLoss.
MaxLoss == 1

\* Configured numbers of training runs range over 0..MaxNIter.
MaxNIter == 3
\* Episode rewards reported by train() range over 0..MaxReward.
MaxReward == 1

\* Ray has 1..MaxCpus CPUs.
MaxCpus == 2

\* The values of JUPYTERHUB_BASE_URL and JUPYTERHUB_USER have at most
\* MaxValueLen characters.
MaxValueLen == 1
\* The workspace file has at most MaxChunks pieces.
MaxChunks == 2

\* The trainer functions are called with a batch size of 1..MaxBatchSize.
MaxBatchSize == 1001
\* data/diamonds.csv has up to MaxRowBlocks times 10,000 rows.
MaxRowBlocks == 6

\* ------------------------------------------------------ program constants
NUM_TRAIN_SAMPLES == 1000
NUM_TEST_SAMPLES == 400
\* default batch_size of train_example, train_diamonds, train_diamonds_mlflow
DefaultBatchSize == 128
\* for i in range(32) of train_diamonds and train_diamonds_mlflow
DiamondsEpochs == 32
\* for i in range(10) of the two MLflow demonstration cells
ScoreSteps == 10
\* N_ITER of the PPO cells and of the DQN cells
PPO_N_ITER == 10
DQN_N_ITER == 50

Losses == 0..MaxLoss
None == "None"

VARIABLES
    pc,           \* the statement the driver executes next
    i,            \* the loop variable i
    calls,        \* the library calls and prints executed so far, in order
    exc,          \* the exception that propagated out of a cell, or None
    rayUp,        \* Ray is initialised
    trainer,      \* the TFTrainer handle: its config, or None
    start_stats, end_stats, train_stats, val_stats,
    dloss, dmse,  \* locals of train_example
    sanity,       \* the message the sanity check of train_example printed
    mlRuns,       \* the MLflow tracking store: the runs, in creation order
    activeRun,    \* the fluent API's active run (index into mlRuns), or 0
    experiments,  \* the MLflow tracking store: the names of the experiments
                  \* created, in order (experiment 0 is MLflow's "Default")
    experiment_id,\* notebook global: the id create_experiment returned
    client,       \* notebook global: MlflowClient() was constructed
    run,          \* notebook global: the run of the create_run cell, or 0
    ml_run,       \* local of train_diamonds_mlflow: its run, or 0
    \* --- the session
    faults,       \* library calls may fail for reasons outside the notebook
    nb,           \* the notebook the session runs, or None
    session,      \* the number of sessions started so far
    dask,         \* the Dask distributed Client: none, open or closed
    \* --- the DQN and PPO notebooks
    N_ITER, n, last_checkpoint, result, config, rlTrainer,
    DEFAULT_CONFIG, \* the library's default configuration (a dict)
    heap,         \* the nested dict objects the configurations refer to
    lines,        \* the n of every result line printed, in order
    checkpoints,  \* the checkpoint files on disk
    \* --- the tuning notebook
    trials,       \* the trials of tune.run and where each is
    cpus,         \* the CPUs Ray has: the trials it runs at a time
    creators,     \* the creator functions a TFTrainer worker is running
    \* --- the start script
    file,         \* the contents of binder/jupyterlab-workspace.json
    file0,        \* its contents when the script started
    JUPYTERHUB_BASE_URL, JUPYTERHUB_USER, HOME, PATH,
    args,         \* the arguments of the script: the command to exec
    exit_status,  \* $?: the exit status of the last command
    imported,     \* what the workspace import read, or None
    command       \* the command the script became, with its PATH, or None

sgdLocals == <<trainer, start_stats, end_stats, train_stats, val_stats,
               dloss, dmse>>
mlVars == <<mlRuns, activeRun, experiments, experiment_id, client, run,
            ml_run>>
sgdVars == <<pc, i, calls, exc, rayUp, sgdLocals, sanity, mlVars>>
sessionVars == <<faults, nb, session, dask>>
rlVars == <<N_ITER, n, last_checkpoint, result, config, rlTrainer,
            DEFAULT_CONFIG, heap, lines, checkpoints>>
tuneVars == <<trials, cpus, creators>>
shVars == <<file, file0, JUPYTERHUB_BASE_URL, JUPYTERHUB_USER, HOME, PATH,
            args, exit_status, imported, command>>
vars == <<sgdVars, sessionVars, rlVars, tuneVars, shVars>>

\* What the statements of the RaySGD + MLflow notebook leave alone.
sgdFrame == <<sessionVars, rlVars, tuneVars, shVars>>

\* ----------------------------------------------------------- pure helpers
\* (mutant) the step counts are rounded up
create_config_rounded_up(batch_size) ==
    [batch_size |-> batch_size,
     fit_config |-> [steps_per_epoch |->
                        (NUM_TRAIN_SAMPLES + batch_size - 1) \div batch_size],
     evaluate_config |-> [steps |->
                        (NUM_TEST_SAMPLES + batch_size - 1) \div batch_size]]

create_config(batch_size) ==
    [batch_size |-> batch_size,
     fit_config |-> [steps_per_epoch |-> NUM_TRAIN_SAMPLES \div batch_size],
     evaluate_config |-> [steps |-> NUM_TEST_SAMPLES \div batch_size]]

\* (mutant) the evaluation steps are those of the whole file
create_diamonds_config_all_rows(batch_size) ==
    [batch_size |-> batch_size,
     fit_config |-> [steps_per_epoch |-> 40000 \div batch_size],
     evaluate_config |-> [steps |-> 53940 \div batch_size]]

create_diamonds_config(batch_size) ==
    [batch_size |-> batch_size,
     fit_config |-> [steps_per_epoch |-> 40000 \div batch_size],
     evaluate_config |-> [steps |-> 13940 \div batch_size]]

\* What validate() returns: a loss and a metric, any values.
ValidationStats ==
    [validation_loss : Losses, validation_mean_squared_error : Losses]

\* What train() returns.
TrainStats == [train_loss : Losses]

\* ----------------------------------------------------- the MLflow store
\* The metric keys the notebook logs.
MetricKeys == {"score", "validation_loss", "training_loss"}

\* No metric point.
NoPoint == [key |-> None, step |-> -1, value |-> 0]

\* A run of the store: its experiment, its status, how many parameters and
\* metric points were logged to it, how often it was ended, and how many of
\* the logs came after it was over; of its metric points, how many each key
\* has, the step of the latest point of each key, and the latest point.
NewRun(exp) ==
    [experiment |-> exp, status |-> "RUNNING", params |-> 0, metrics |-> 0,
     ends |-> 0, lateLogs |-> 0,
     count |-> [k \in MetricKeys |-> 0],
     step |-> [k \in MetricKeys |-> -1],
     last |-> NoPoint]

Late(r) == IF mlRuns[r].status = "RUNNING" THEN 0 ELSE 1

\* log_param on run r.
StoreParam(r) ==
    [mlRuns EXCEPT ![r].params = @ + 1, ![r].lateLogs = @ + Late(r)]

\* log_metric(key, value, step) on run r.
StoreMetric(r, key, value, step) ==
    [mlRuns EXCEPT ![r].metrics = @ + 1, ![r].lateLogs = @ + Late(r),
                   ![r].count[key] = @ + 1,
                   ![r].step[key] = step,
                   ![r].last = [key |-> key, step |-> step, value |-> value]]

\* end_run() / set_terminated(run_id) on run r.
StoreEnd(r, status) ==
    [mlRuns EXCEPT ![r].status = status, ![r].ends = @ + 1]

\* ------------------------------------------------------- unset values
NoTrainer == [kind |-> "none"]
NoStats == [unset |-> TRUE]
NoExc == [call |-> None, at |-> 0]

\* ------------------------------------------------- calls and exceptions
\* A library call or print statement `name` returns; the driver goes on at
\* `next`.
Return(next, name) ==
    /\ pc' = next
    /\ calls' = Append(calls, name)
    /\ exc' = exc

\* (mutant) the failing call is swallowed and the statement is tried again
RaiseAndRetry(name) ==
    /\ faults
    /\ pc' = pc
    /\ calls' = Append(calls, name)
    /\ exc' = [call |-> name, at |-> Len(calls) + 1]

\* An exception raised by the call `name`: no cell of the notebooks has a
\* try/except, so it leaves the enclosing function and the cell, and the
\* top-to-bottom execution stops there.
Throw(name) ==
    /\ pc' = "raised"
    /\ calls' = Append(calls, name)
    /\ exc' = [call |-> name, at |-> Len(calls) + 1]

\* A library call fails for a reason outside the notebook.
Raise(name) == faults /\ Throw(name)

\* for i in range(bound): the statement after the loop variable became iNext.
LoopNext(iNext, bound, body, exit) == IF iNext < bound THEN body ELSE exit

\* ============================================================ the notebook
\* Cells that only import modules and define functions have no action: the
\* functions they define are the actions below, taken where they are called.

\* ---------------------------------------------- cell: ray.init(); train_example()
ray_init ==
    /\ pc = "ray_init"
    /\ \/ /\ Return("te_construct", "ray.init")
          /\ rayUp' = TRUE
       \/ /\ Raise("ray.init")
          /\ UNCHANGED rayUp
    /\ UNCHANGED <<sgdFrame, i, sgdLocals, sanity, mlVars>>

\* trainer = TFTrainer(model_creator=simple_model, data_creator=simple_dataset,
\*                     ..., config=create_config(batch_size))
te_construct ==
    /\ pc = "te_construct"
    /\ \/ /\ Return("te_validate1", "TFTrainer")
          /\ trainer' = [kind |-> "TFTrainer",
                         model_creator |-> "simple_model",
                         data_creator |-> "simple_dataset",
                         config |-> create_config(DefaultBatchSize)]
       \/ /\ Raise("TFTrainer")
          /\ UNCHANGED trainer
    /\ UNCHANGED <<sgdFrame, i, rayUp, start_stats, end_stats, train_stats, val_stats,
                   dloss, dmse, sanity, mlVars>>

\* start_stats = trainer.validate()
te_validate1 ==
    /\ pc = "te_validate1"
    /\ \/ /\ Return("te_print1", "validate")
          /\ \E st \in ValidationStats : start_stats' = st
       \/ /\ Raise("validate")
          /\ UNCHANGED start_stats
    /\ UNCHANGED <<sgdFrame, i, rayUp, trainer, end_stats, train_stats, val_stats,
                   dloss, dmse, sanity, mlVars>>

\* print(start_stats)
te_print1 ==
    /\ pc = "te_print1"
    /\ Return("te_train1", "print")
    /\ UNCHANGED <<sgdFrame, i, rayUp, sgdLocals, sanity, mlVars>>

\* trainer.train()   (first epoch; the result is dropped)
te_train1 ==
    /\ pc = "te_train1"
    /\ \/ Return("te_train2", "train")
       \/ Raise("train")
    /\ UNCHANGED <<sgdFrame, i, rayUp, sgdLocals, sanity, mlVars>>

\* trainer.train()   (second epoch)
te_train2 ==
    /\ pc = "te_train2"
    /\ \/ Return("te_validate2", "train")
       \/ Raise("train")
    /\ UNCHANGED <<sgdFrame, i, rayUp, sgdLocals, sanity, mlVars>>

\* end_stats = trainer.validate()
te_validate2 ==
    /\ pc = "te_validate2"
    /\ \/ /\ Return("te_print2", "validate")
          /\ \E st \in ValidationStats : end_stats' = st
       \/ /\ Raise("validate")
          /\ UNCHANGED end_stats
    /\ UNCHANGED <<sgdFrame, i, rayUp, trainer, start_stats, train_stats, val_stats,
                   dloss, dmse, sanity, mlVars>>

\* print(end_stats)
te_print2 ==
    /\ pc = "te_print2"
    /\ Return("te_dloss", "print")
    /\ UNCHANGED <<sgdFrame, i, rayUp, sgdLocals, sanity, mlVars>>

\* (mutant) the difference taken the other way round
LossChangeSwapped(endS, startS) ==
    startS.validation_loss - endS.validation_loss

\* dloss = end_stats["validation_loss"] - start_stats["validation_loss"]
LossChange(endS, startS) == endS.validation_loss - startS.validation_loss

\* dmse = (end_stats["validation_mean_squared_error"] -
\*         start_stats["validation_mean_squared_error"])
MseChange(endS, startS) ==
    endS.validation_mean_squared_error - startS.validation_mean_squared_error

\* dloss = ...; dmse = ...; print(f"dLoss: {dloss}, dMSE: {dmse}")
te_dloss ==
    /\ pc = "te_dloss"
    /\ dloss' = LossChange(end_stats, start_stats)
    /\ dmse' = MseChange(end_stats, start_stats)
    /\ Return("te_check", "print dLoss")
    /\ UNCHANGED <<sgdFrame, i, rayUp, trainer, start_stats, end_stats, train_stats,
                   val_stats, sanity, mlVars>>

Failed == "training sanity check failed. loss increased!"
Success == "success!"

\* if dloss > 0 or dmse > 0: print(Failed) else: print(Success)
SanityMessage(dl, dm) == IF dl > 0 \/ dm > 0 THEN Failed ELSE Success

te_check ==
    /\ pc = "te_check"
    /\ sanity' = SanityMessage(dloss, dmse)
    /\ Return("te_return", SanityMessage(dloss, dmse))
    /\ UNCHANGED <<sgdFrame, i, rayUp, sgdLocals, mlVars>>

\* train_example returns: its locals are gone.
te_return ==
    /\ pc = "te_return"
    /\ pc' = "td_construct"
    /\ trainer' = NoTrainer
    /\ start_stats' = NoStats
    /\ end_stats' = NoStats
    /\ dloss' = 0
    /\ dmse' = 0
    /\ UNCHANGED <<sgdFrame, i, calls, exc, rayUp, train_stats, val_stats, sanity, mlVars>>

\* ------------------------------------------------- cell: train_diamonds()
DiamondsTrainer ==
    [kind |-> "TFTrainer",
     model_creator |-> "diamonds_simple_model",
     data_creator |-> "diamonds_dataset",
     config |-> create_diamonds_config(DefaultBatchSize)]

td_construct ==
    /\ pc = "td_construct"
    /\ \/ /\ Return("td_validate1", "TFTrainer")
          /\ trainer' = DiamondsTrainer
       \/ /\ Raise("TFTrainer")
          /\ UNCHANGED trainer
    /\ UNCHANGED <<sgdFrame, i, rayUp, start_stats, end_stats, train_stats, val_stats,
                   dloss, dmse, sanity, mlVars>>

td_validate1 ==
    /\ pc = "td_validate1"
    /\ \/ /\ Return("td_print1", "validate")
          /\ \E st \in ValidationStats : start_stats' = st
       \/ /\ Raise("validate")
          /\ UNCHANGED start_stats
    /\ UNCHANGED <<sgdFrame, i, rayUp, trainer, end_stats, train_stats, val_stats,
                   dloss, dmse, sanity, mlVars>>

\* print(start_stats), then the loop is entered: for i in range(32)
td_print1 ==
    /\ pc = "td_print1"
    /\ Return(LoopNext(0, DiamondsEpochs, "td_train", "td_validate2"), "print")
    /\ i' = 0
    /\ UNCHANGED <<sgdFrame, rayUp, sgdLocals, sanity, mlVars>>

\* for i in range(32): trainer.train()
td_train ==
    /\ pc = "td_train"
    /\ \/ /\ Return(LoopNext(i + 1, DiamondsEpochs, "td_train", "td_validate2"),
                    "train")
          /\ i' = IF i + 1 < DiamondsEpochs THEN i + 1 ELSE i
       \/ /\ Raise("train")
          /\ UNCHANGED i
    /\ UNCHANGED <<sgdFrame, rayUp, sgdLocals, sanity, mlVars>>

td_validate2 ==
    /\ pc = "td_validate2"
    /\ \/ /\ Return("td_print2", "validate")
          /\ \E st \in ValidationStats : end_stats' = st
       \/ /\ Raise("validate")
          /\ UNCHANGED end_stats
    /\ UNCHANGED <<sgdFrame, i, rayUp, trainer, start_stats, train_stats, val_stats,
                   dloss, dmse, sanity, mlVars>>

\* print(end_stats); train_diamonds returns
td_print2 ==
    /\ pc = "td_print2"
    /\ Return("m1_log_param_foo", "print")
    /\ trainer' = NoTrainer
    /\ start_stats' = NoStats
    /\ end_stats' = NoStats
    /\ UNCHANGED <<sgdFrame, i, rayUp, train_stats, val_stats, dloss, dmse, sanity,
                   mlVars>>

\* ------------------------------------ cell: log_param / log_metric / end_run
\* The fluent API logs to the active run and starts one when there is none.
FluentRuns == IF activeRun = 0 THEN Append(mlRuns, NewRun(0)) ELSE mlRuns
FluentActive == IF activeRun = 0 THEN Len(mlRuns) + 1 ELSE activeRun

FluentLogParam ==
    /\ activeRun' = FluentActive
    /\ mlRuns' = [FluentRuns EXCEPT
                    ![FluentActive].params = @ + 1,
                    ![FluentActive].lateLogs =
                        @ + (IF FluentRuns[FluentActive].status = "RUNNING"
                             THEN 0 ELSE 1)]

FluentLogMetric(key, value, step) ==
    /\ activeRun' = FluentActive
    /\ mlRuns' = [FluentRuns EXCEPT
                    ![FluentActive].metrics = @ + 1,
                    ![FluentActive].lateLogs =
                        @ + (IF FluentRuns[FluentActive].status = "RUNNING"
                             THEN 0 ELSE 1),
                    ![FluentActive].count[key] = @ + 1,
                    ![FluentActive].step[key] = step,
                    ![FluentActive].last =
                        [key |-> key, step |-> step, value |-> value]]

\* end_run(): ends the active run, when there is one.
FluentEndRun(status) ==
    /\ activeRun' = 0
    /\ mlRuns' = IF activeRun = 0 THEN mlRuns ELSE StoreEnd(activeRun, status)

\* log_param("foo_count", 42)
m1_log_param_foo ==
    /\ pc = "m1_log_param_foo"
    /\ \/ /\ Return("m1_log_param_bar", "log_param")
          /\ FluentLogParam
       \/ /\ Raise("log_param")
          /\ UNCHANGED <<mlRuns, activeRun>>
    /\ UNCHANGED <<sgdFrame, i, rayUp, sgdLocals, sanity, experiments, experiment_id,
                   client, run, ml_run>>

\* log_param("bar_count", 43), then the loop is entered: for i in range(10)
m1_log_param_bar ==
    /\ pc = "m1_log_param_bar"
    /\ \/ /\ Return(LoopNext(0, ScoreSteps, "m1_log_metric", "m1_end_run"),
                    "log_param")
          /\ FluentLogParam
          /\ i' = 0
       \/ /\ Raise("log_param")
          /\ UNCHANGED <<mlRuns, activeRun, i>>
    /\ UNCHANGED <<sgdFrame, rayUp, sgdLocals, sanity, experiments, experiment_id,
                   client, run, ml_run>>

\* for i in range(10): log_metric("score", i)
m1_log_metric ==
    /\ pc = "m1_log_metric"
    /\ \/ /\ Return(LoopNext(i + 1, ScoreSteps, "m1_log_metric", "m1_end_run"),
                    "log_metric")
          /\ FluentLogMetric("score", i, 0)
          /\ i' = IF i + 1 < ScoreSteps THEN i + 1 ELSE i
       \/ /\ Raise("log_metric")
          /\ UNCHANGED <<mlRuns, activeRun, i>>
    /\ UNCHANGED <<sgdFrame, rayUp, sgdLocals, sanity, experiments, experiment_id,
                   client, run, ml_run>>

\* end_run()
m1_end_run ==
    /\ pc = "m1_end_run"
    /\ \/ /\ Return("m2_start_run", "end_run")
          /\ FluentEndRun("FINISHED")
       \/ /\ Raise("end_run")
          /\ UNCHANGED <<mlRuns, activeRun>>
    /\ UNCHANGED <<sgdFrame, i, rayUp, sgdLocals, sanity, experiments, experiment_id,
                   client, run, ml_run>>

\* ------------------------------------------- cell: with mlflow.start_run():
\* start_run() raises when a run is already active.
m2_start_run ==
    /\ pc = "m2_start_run"
    /\ \/ /\ activeRun = 0
          /\ Return(LoopNext(0, ScoreSteps, "m2_log_metric", "m2_exit"),
                    "start_run")
          /\ mlRuns' = Append(mlRuns, NewRun(0))
          /\ activeRun' = Len(mlRuns) + 1
          /\ i' = 0
       \/ /\ activeRun # 0
          /\ Throw("start_run")
          /\ UNCHANGED <<mlRuns, activeRun, i>>
       \/ /\ Raise("start_run")
          /\ UNCHANGED <<mlRuns, activeRun, i>>
    /\ UNCHANGED <<sgdFrame, rayUp, sgdLocals, sanity, experiments, experiment_id,
                   client, run, ml_run>>

\* for i in range(10): log_metric("score", i*i, step=i)
\* An exception leaves the with block through the context manager, which ends
\* the run as FAILED.
m2_log_metric ==
    /\ pc = "m2_log_metric"
    /\ \/ /\ Return(LoopNext(i + 1, ScoreSteps, "m2_log_metric", "m2_exit"),
                    "log_metric")
          /\ FluentLogMetric("score", i * i, i)
          /\ i' = IF i + 1 < ScoreSteps THEN i + 1 ELSE i
       \/ /\ Raise("log_metric")
          /\ FluentEndRun("FAILED")
          /\ UNCHANGED i
    /\ UNCHANGED <<sgdFrame, rayUp, sgdLocals, sanity, experiments, experiment_id,
                   client, run, ml_run>>

\* the with block is left: the context manager ends the run
m2_exit ==
    /\ pc = "m2_exit"
    /\ Return("m3_create_experiment", "end_run")
    /\ FluentEndRun("FINISHED")
    /\ UNCHANGED <<sgdFrame, i, rayUp, sgdLocals, sanity, experiments, experiment_id,
                   client, run, ml_run>>

\* --------------- cell: experiment_id = mlflow.create_experiment("Diamonds RaySGD")
ExperimentName == "Diamonds RaySGD"

ExperimentExists(name) == \E k \in 1..Len(experiments) : experiments[k] = name

\* create_experiment raises when an experiment of that name exists.
m3_create_experiment ==
    /\ pc = "m3_create_experiment"
    /\ \/ /\ ~ExperimentExists(ExperimentName)
          /\ Return("m4_client", "create_experiment")
          /\ experiments' = Append(experiments, ExperimentName)
          /\ experiment_id' = Len(experiments) + 1
       \/ /\ ExperimentExists(ExperimentName)
          /\ Throw("create_experiment")
          /\ UNCHANGED <<experiments, experiment_id>>
       \/ /\ Raise("create_experiment")
          /\ UNCHANGED <<experiments, experiment_id>>
    /\ UNCHANGED <<sgdFrame, i, rayUp, sgdLocals, sanity, mlRuns, activeRun, client, run,
                   ml_run>>

\* ------------------------------------------- cell: client = MlflowClient()
m4_client ==
    /\ pc = "m4_client"
    /\ \/ /\ Return("m5_create_run", "MlflowClient")
          /\ client' = TRUE
       \/ /\ Raise("MlflowClient")
          /\ UNCHANGED client
    /\ UNCHANGED <<sgdFrame, i, rayUp, sgdLocals, sanity, mlRuns, activeRun, experiments,
                   experiment_id, run, ml_run>>

\* ------------------- cell: create_run / client.log_param / set_terminated
\* run = client.create_run(experiment_id)
m5_create_run ==
    /\ pc = "m5_create_run"
    /\ \/ /\ Return("m5_log_param", "create_run")
          /\ mlRuns' = Append(mlRuns, NewRun(experiment_id))
          /\ run' = Len(mlRuns) + 1
       \/ /\ Raise("create_run")
          /\ UNCHANGED <<mlRuns, run>>
    /\ UNCHANGED <<sgdFrame, i, rayUp, sgdLocals, sanity, activeRun, experiments,
                   experiment_id, client, ml_run>>

\* client.log_param(run.info.run_id, "hello", "world")
m5_log_param ==
    /\ pc = "m5_log_param"
    /\ \/ /\ Return("m5_set_terminated", "client.log_param")
          /\ mlRuns' = StoreParam(run)
       \/ /\ Raise("client.log_param")
          /\ UNCHANGED mlRuns
    /\ UNCHANGED <<sgdFrame, i, rayUp, sgdLocals, sanity, activeRun, experiments,
                   experiment_id, client, run, ml_run>>

\* client.set_terminated(run.info.run_id)
m5_set_terminated ==
    /\ pc = "m5_set_terminated"
    /\ \/ /\ Return("tdm_construct", "set_terminated")
          /\ mlRuns' = StoreEnd(run, "FINISHED")
       \/ /\ Raise("set_terminated")
          /\ UNCHANGED mlRuns
    /\ UNCHANGED <<sgdFrame, i, rayUp, sgdLocals, sanity, activeRun, experiments,
                   experiment_id, client, run, ml_run>>

\* ------------------------------------------ cell: train_diamonds_mlflow()
tdm_construct ==
    /\ pc = "tdm_construct"
    /\ \/ /\ Return("tdm_validate1", "TFTrainer")
          /\ trainer' = DiamondsTrainer
       \/ /\ Raise("TFTrainer")
          /\ UNCHANGED trainer
    /\ UNCHANGED <<sgdFrame, i, rayUp, start_stats, end_stats, train_stats, val_stats,
                   dloss, dmse, sanity, mlVars>>

tdm_validate1 ==
    /\ pc = "tdm_validate1"
    /\ \/ /\ Return("tdm_print1", "validate")
          /\ \E st \in ValidationStats : start_stats' = st
       \/ /\ Raise("validate")
          /\ UNCHANGED start_stats
    /\ UNCHANGED <<sgdFrame, i, rayUp, trainer, end_stats, train_stats, val_stats,
                   dloss, dmse, sanity, mlVars>>

tdm_print1 ==
    /\ pc = "tdm_print1"
    /\ Return("tdm_create_run", "print")
    /\ UNCHANGED <<sgdFrame, i, rayUp, sgdLocals, sanity, mlVars>>

\* ml_run = client.create_run(experiment_id), then for i in range(32)
tdm_create_run ==
    /\ pc = "tdm_create_run"
    /\ \/ /\ Return(LoopNext(0, DiamondsEpochs, "tdm_train",
                             "tdm_set_terminated"), "create_run")
          /\ mlRuns' = Append(mlRuns, NewRun(experiment_id))
          /\ ml_run' = Len(mlRuns) + 1
          /\ i' = 0
       \/ /\ Raise("create_run")
          /\ UNCHANGED <<mlRuns, ml_run, i>>
    /\ UNCHANGED <<sgdFrame, rayUp, sgdLocals, sanity, activeRun, experiments,
                   experiment_id, client, run>>

\* (mutant) the branch on i is lost: every iteration validates and logs
LogsAtEvery(k) == TRUE

\* if i % 2 == 0:
LogsAt(k) == k % 2 = 0

\* (mutant) a failing train() is followed by set_terminated, as in a finally
tdm_train_terminates_on_error ==
    /\ pc = "tdm_train"
    /\ \/ /\ \E st \in TrainStats : train_stats' = st
          /\ IF LogsAt(i)
             THEN /\ Return("tdm_validate", "train")
                  /\ i' = i
             ELSE /\ Return(LoopNext(i + 1, DiamondsEpochs, "tdm_train",
                                     "tdm_set_terminated"), "train")
                  /\ i' = IF i + 1 < DiamondsEpochs THEN i + 1 ELSE i
          /\ UNCHANGED mlRuns
       \/ /\ Raise("train")
          /\ mlRuns' = StoreEnd(ml_run, "FAILED")
          /\ UNCHANGED <<train_stats, i>>
    /\ UNCHANGED <<sgdFrame, rayUp, trainer, start_stats, end_stats, val_stats, dloss,
                   dmse, sanity, activeRun, experiments, experiment_id, client,
                   run, ml_run>>

\* train_stats = trainer.train(); the branch on i follows
tdm_train ==
    /\ pc = "tdm_train"
    /\ \/ /\ \E st \in TrainStats : train_stats' = st
          /\ IF LogsAt(i)
             THEN /\ Return("tdm_validate", "train")
                  /\ i' = i
             ELSE /\ Return(LoopNext(i + 1, DiamondsEpochs, "tdm_train",
                                     "tdm_set_terminated"), "train")
                  /\ i' = IF i + 1 < DiamondsEpochs THEN i + 1 ELSE i
       \/ /\ Raise("train")
          /\ UNCHANGED <<train_stats, i>>
    /\ UNCHANGED <<sgdFrame, rayUp, trainer, start_stats, end_stats, val_stats, dloss,
                   dmse, sanity, mlVars>>

\* val_stats = trainer.validate()
tdm_validate ==
    /\ pc = "tdm_validate"
    /\ \/ /\ Return("tdm_log_validation", "validate")
          /\ \E st \in ValidationStats : val_stats' = st
       \/ /\ Raise("validate")
          /\ UNCHANGED val_stats
    /\ UNCHANGED <<sgdFrame, i, rayUp, trainer, start_stats, end_stats, train_stats,
                   dloss, dmse, sanity, mlVars>>

\* client.log_metric(ml_run.info.run_id, "validation_loss",
\*                   val_stats["validation_loss"], step=i)
tdm_log_validation ==
    /\ pc = "tdm_log_validation"
    /\ \/ /\ Return("tdm_log_training", "client.log_metric")
          /\ mlRuns' = StoreMetric(ml_run, "validation_loss",
                                   val_stats.validation_loss, i)
       \/ /\ Raise("client.log_metric")
          /\ UNCHANGED mlRuns
    /\ UNCHANGED <<sgdFrame, i, rayUp, sgdLocals, sanity, activeRun, experiments,
                   experiment_id, client, run, ml_run>>

\* (mutant) the second log_metric logs the validation loss once more
tdm_log_training_of_validation ==
    /\ pc = "tdm_log_training"
    /\ \/ /\ Return(LoopNext(i + 1, DiamondsEpochs, "tdm_train",
                             "tdm_set_terminated"), "client.log_metric")
          /\ mlRuns' = StoreMetric(ml_run, "training_loss",
                                   val_stats.validation_loss, i)
          /\ i' = IF i + 1 < DiamondsEpochs THEN i + 1 ELSE i
       \/ /\ Raise("client.log_metric")
          /\ UNCHANGED <<mlRuns, i>>
    /\ UNCHANGED <<sgdFrame, rayUp, sgdLocals, sanity, activeRun, experiments,
                   experiment_id, client, run, ml_run>>

\* client.log_metric(ml_run.info.run_id, "training_loss",
\*                   train_stats["train_loss"], step=i)
tdm_log_training ==
    /\ pc = "tdm_log_training"
    /\ \/ /\ Return(LoopNext(i + 1, DiamondsEpochs, "tdm_train",
                             "tdm_set_terminated"), "client.log_metric")
          /\ mlRuns' = StoreMetric(ml_run, "training_loss",
                                   train_stats.train_loss, i)
          /\ i' = IF i + 1 < DiamondsEpochs THEN i + 1 ELSE i
       \/ /\ Raise("client.log_metric")
          /\ UNCHANGED <<mlRuns, i>>
    /\ UNCHANGED <<sgdFrame, rayUp, sgdLocals, sanity, activeRun, experiments,
                   experiment_id, client, run, ml_run>>

\* (mutant) the run of train_diamonds_mlflow is never terminated
tdm_set_terminated_missing ==
    /\ pc = "tdm_set_terminated"
    /\ pc' = "tdm_validate2"
    /\ UNCHANGED <<sgdFrame, i, calls, exc, rayUp, sgdLocals, sanity, mlVars>>

\* client.set_terminated(ml_run.info.run_id)
tdm_set_terminated ==
    /\ pc = "tdm_set_terminated"
    /\ \/ /\ Return("tdm_validate2", "set_terminated")
          /\ mlRuns' = StoreEnd(ml_run, "FINISHED")
       \/ /\ Raise("set_terminated")
          /\ UNCHANGED mlRuns
    /\ UNCHANGED <<sgdFrame, i, rayUp, sgdLocals, sanity, activeRun, experiments,
                   experiment_id, client, run, ml_run>>

tdm_validate2 ==
    /\ pc = "tdm_validate2"
    /\ \/ /\ Return("tdm_print2", "validate")
          /\ \E st \in ValidationStats : end_stats' = st
       \/ /\ Raise("validate")
          /\ UNCHANGED end_stats
    /\ UNCHANGED <<sgdFrame, i, rayUp, trainer, start_stats, train_stats, val_stats,
                   dloss, dmse, sanity, mlVars>>

\* print(end_stats); train_diamonds_mlflow returns
tdm_print2 ==
    /\ pc = "tdm_print2"
    /\ Return("ray_shutdown", "print")
    /\ trainer' = NoTrainer
    /\ start_stats' = NoStats
    /\ end_stats' = NoStats
    /\ train_stats' = NoStats
    /\ val_stats' = NoStats
    /\ ml_run' = 0
    /\ UNCHANGED <<sgdFrame, i, rayUp, dloss, dmse, sanity, mlRuns, activeRun,
                   experiments, experiment_id, client, run>>

\* ----------------------------------------------------- cell: ray.shutdown()
ray_shutdown ==
    /\ pc = "ray_shutdown"
    /\ \/ /\ Return("done", "ray.shutdown")
          /\ rayUp' = FALSE
       \/ /\ Raise("ray.shutdown")
          /\ UNCHANGED rayUp
    /\ UNCHANGED <<sgdFrame, i, sgdLocals, sanity, mlVars>>

\* ==================================== the trainer functions with arguments
\* train_example and train_diamonds as functions: called with any batch size,
\* and, for the diamonds, on a CSV file with any number of rows.

BatchSizes == 1..MaxBatchSize

\* train_size = 40_000
train_size == 40000

\* The numbers of rows data/diamonds.csv may have: multiples of 10,000 and
\* the number create_diamonds_config counts on.
RowChoices == {10000 * k : k \in 0..MaxRowBlocks} \cup {40000 + 13940}

\* diamonds_dataset: train_test_split(X, y, train_size=train_size) cuts the
\* rows into the training split and the test split, all remaining rows.
diamonds_dataset(rows) == [train |-> train_size, test |-> rows - train_size]

\* train_example(batch_size=...): trainer = TFTrainer(...,
\*                                     config=create_config(batch_size))
te_construct_with(batch_size) ==
    /\ pc = "te_construct"
    /\ \/ /\ Return("te_validate1", "TFTrainer")
          /\ trainer' = [kind |-> "TFTrainer",
                         model_creator |-> "simple_model",
                         data_creator |-> "simple_dataset",
                         config |-> create_config(batch_size)]
       \/ /\ Raise("TFTrainer")
          /\ UNCHANGED trainer
    /\ UNCHANGED <<sgdFrame, i, rayUp, start_stats, end_stats, train_stats, val_stats,
                   dloss, dmse, sanity, mlVars>>

\* train_diamonds(batch_size=...): trainer = TFTrainer(...,
\*                              config=create_diamonds_config(batch_size));
\* the worker calls diamonds_dataset, whose train_test_split raises unless the
\* file has more than train_size rows.
td_construct_with(batch_size, rows) ==
    /\ pc = "td_construct"
    /\ \/ /\ rows > train_size
          /\ Return("td_validate1", "TFTrainer")
          /\ trainer' = [kind |-> "TFTrainer",
                         model_creator |-> "diamonds_simple_model",
                         data_creator |-> "diamonds_dataset",
                         config |-> create_diamonds_config(batch_size),
                         data |-> diamonds_dataset(rows)]
       \/ /\ rows <= train_size
          /\ Throw("TFTrainer")
          /\ UNCHANGED trainer
       \/ /\ Raise("TFTrainer")
          /\ UNCHANGED trainer
    /\ UNCHANGED <<sgdFrame, i, rayUp, start_stats, end_stats, train_stats, val_stats,
                   dloss, dmse, sanity, mlVars>>

\* ===================================== the Dask cells of the modeling notebook
\* The feature-engineering and modeling notebook runs these cells before its
\* DQN cells.

\* What the Dask cells leave alone.
daskFrame == <<i, rayUp, sgdLocals, sanity, mlVars, faults, nb, session,
               rlVars, tuneVars, shVars>>

\* client = Client(n_workers=2, threads_per_worker=1, memory_limit='1GB')
dk_client ==
    /\ pc = "dk_client"
    /\ \/ /\ Return("dk_read_csv", "Client")
          /\ dask' = "open"
       \/ /\ Raise("Client")
          /\ UNCHANGED dask
    /\ UNCHANGED daskFrame

\* The Dask computations of the cells between Client(...) and client.close(),
\* one for each cell, in the order of the notebook.
DaskStatements ==
    <<[at |-> "dk_read_csv", call |-> "read_csv"],
      [at |-> "dk_head", call |-> "head"],
      [at |-> "dk_categorize", call |-> "categorize"],
      [at |-> "dk_get_dummies", call |-> "get_dummies"],
      [at |-> "dk_to_dask_array", call |-> "to_dask_array"],
      [at |-> "dk_compute", call |-> "compute"],
      [at |-> "dk_train_test_split", call |-> "train_test_split"],
      [at |-> "dk_fit", call |-> "fit"],
      [at |-> "dk_predict", call |-> "predict"],
      [at |-> "dk_mean_squared_error", call |-> "mean_squared_error"]>>

\* The k-th of these cells: its computation returns or raises.
dk_statement(k) ==
    /\ pc = DaskStatements[k].at
    /\ \/ Return(IF k < Len(DaskStatements) THEN DaskStatements[k + 1].at
                 ELSE "dk_close", DaskStatements[k].call)
       \/ Raise(DaskStatements[k].call)
    /\ UNCHANGED <<dask, daskFrame>>

\* (mutant) the client is left open
dk_close_missing ==
    /\ pc = "dk_close"
    /\ pc' = "rl_ray_shutdown0"
    /\ UNCHANGED <<calls, exc, dask, daskFrame>>

\* client.close(): the client and the cluster it started are shut down; the
\* cells that follow are the DQN cells.
dk_close ==
    /\ pc = "dk_close"
    /\ \/ /\ Return("rl_ray_shutdown0", "client.close")
          /\ dask' = "closed"
       \/ /\ Raise("client.close")
          /\ UNCHANGED dask
    /\ UNCHANGED daskFrame

\* ================================================ the DQN and PPO notebooks
\* The reinforcement-learning cells of the modeling notebook (DQN) and of the
\* lab notebook (PPO): the same cells, with another trainer and another N_ITER.

\* What the statements of these cells leave alone.
rlFrame == <<i, sgdLocals, sanity, mlVars, sessionVars, tuneVars, shVars>>

checkpoint_dir == "checkpoints"

\* Number of training runs: the two values of the source and, as a configured
\* value, every number up to MaxNIter.
NIterChoices == (0..MaxNIter) \cup {PPO_N_ITER, DQN_N_ITER}

Rewards == 0..MaxReward

\* What trainer.train() returns, as far as the cells read it.
TrainResults ==
    [episode_reward_min : Rewards, episode_reward_mean : Rewards,
     episode_reward_max : Rewards]
NoResult == [unset |-> TRUE]

TrainerClass(b) == IF b = "dqn" THEN "DQNTrainer" ELSE "PPOTrainer"

\* ray.shutdown()   (first statement of the cell that starts Ray)
rl_ray_shutdown0 ==
    /\ pc = "rl_ray_shutdown0"
    /\ \/ /\ Return("rl_ray_init", "ray.shutdown")
          /\ rayUp' = FALSE
       \/ /\ Raise("ray.shutdown")
          /\ UNCHANGED rayUp
    /\ UNCHANGED <<rlFrame, rlVars>>

\* (mutant) the cell goes on without ray.init()
rl_ray_init_missing ==
    /\ pc = "rl_ray_init"
    /\ pc' = "rl_config"
    /\ UNCHANGED <<calls, exc, rayUp, rlFrame, rlVars>>

\* ray.init()
rl_ray_init ==
    /\ pc = "rl_ray_init"
    /\ \/ /\ Return("rl_config", "ray.init")
          /\ rayUp' = TRUE
       \/ /\ Raise("ray.init")
          /\ UNCHANGED rayUp
    /\ UNCHANGED <<rlFrame, rlVars>>

\* The configuration cell: N_ITER = ...; config = DEFAULT_CONFIG.copy();
\* config["log_level"] = "WARN"; config['num_workers'] = 2;
\* config['model']['fcnet_hiddens'] = [40,20];
\* config['num_cpus_per_worker'] = 0; checkpoint_dir = 'checkpoints'
\* dict.copy() is shallow: the copy refers to the same nested 'model' dict.
rl_config ==
    /\ pc = "rl_config"
    /\ pc' = "rl_trainer"
    /\ \E k \in NIterChoices : N_ITER' = k
    /\ config' = [DEFAULT_CONFIG EXCEPT !.log_level = "WARN",
                                        !.num_workers = 2,
                                        !.num_cpus_per_worker = 0]
    /\ heap' = [heap EXCEPT ![DEFAULT_CONFIG.model].fcnet_hiddens = <<40, 20>>]
    /\ UNCHANGED <<calls, exc, rayUp, n, last_checkpoint, result, rlTrainer,
                   DEFAULT_CONFIG, lines, checkpoints, rlFrame>>

\* trainer = dqn.DQNTrainer(config, SELECT_ENV)   (ppo.PPOTrainer in the lab)
rl_trainer ==
    /\ pc = "rl_trainer"
    /\ \/ /\ Return("rl_loop", TrainerClass(nb))
          /\ rlTrainer' = [kind |-> TrainerClass(nb), iteration |-> 0]
       \/ /\ Raise(TrainerClass(nb))
          /\ UNCHANGED rlTrainer
    /\ UNCHANGED <<rayUp, N_ITER, n, last_checkpoint, result, config,
                   DEFAULT_CONFIG, heap, lines, checkpoints, rlFrame>>

\* fmt = ...; last_checkpoint = ''; for n in range(N_ITER):
rl_loop ==
    /\ pc = "rl_loop"
    /\ pc' = LoopNext(0, N_ITER, "rl_train", "rl_print_last")
    /\ last_checkpoint' = <<>>
    /\ n' = IF 0 < N_ITER THEN 0 ELSE n
    /\ UNCHANGED <<calls, exc, rayUp, N_ITER, result, config, rlTrainer,
                   DEFAULT_CONFIG, heap, lines, checkpoints, rlFrame>>

\* result = trainer.train(); min, mean, max = result[...]
rl_train ==
    /\ pc = "rl_train"
    /\ \/ /\ Return("rl_save", "train")
          /\ \E r \in TrainResults : result' = r
          /\ rlTrainer' = [rlTrainer EXCEPT !.iteration = @ + 1]
       \/ /\ Raise("train")
          /\ UNCHANGED <<result, rlTrainer>>
    /\ UNCHANGED <<rayUp, N_ITER, n, last_checkpoint, config, DEFAULT_CONFIG,
                   heap, lines, checkpoints, rlFrame>>

\* trainer.save(dir) writes the checkpoint of the trainer's current iteration
\* under dir and returns its path.
SavePath(dir, tr) == <<dir, tr.iteration>>

\* (mutant) the checkpoint is saved and the returned path is dropped
rl_save_path_dropped ==
    /\ pc = "rl_save"
    /\ Return("rl_print", "save")
    /\ checkpoints' = checkpoints \cup {SavePath(checkpoint_dir, rlTrainer)}
    /\ UNCHANGED <<rayUp, N_ITER, n, last_checkpoint, result, config,
                   rlTrainer, DEFAULT_CONFIG, heap, lines, rlFrame>>

\* last_checkpoint = trainer.save(checkpoint_dir)
rl_save ==
    /\ pc = "rl_save"
    /\ \/ /\ Return("rl_print", "save")
          /\ checkpoints' = checkpoints \cup {SavePath(checkpoint_dir, rlTrainer)}
          /\ last_checkpoint' = SavePath(checkpoint_dir, rlTrainer)
       \/ /\ Raise("save")
          /\ UNCHANGED <<checkpoints, last_checkpoint>>
    /\ UNCHANGED <<rayUp, N_ITER, n, result, config, rlTrainer,
                   DEFAULT_CONFIG, heap, lines, rlFrame>>

ResultLine(k, r) == [kind |-> "result", n |-> k, path |-> <<>>]
LastLine(path) == [kind |-> "last checkpoint file", n |-> -1, path |-> path]

\* print(fmt.format(n, min, mean, max)), then the next n
rl_print ==
    /\ pc = "rl_print"
    /\ Return(LoopNext(n + 1, N_ITER, "rl_train", "rl_print_last"), "print")
    /\ lines' = Append(lines, ResultLine(n, result))
    /\ n' = IF n + 1 < N_ITER THEN n + 1 ELSE n
    /\ UNCHANGED <<rayUp, N_ITER, last_checkpoint, result, config, rlTrainer,
                   DEFAULT_CONFIG, heap, checkpoints, rlFrame>>

\* print(f'last checkpoint file: {last_checkpoint}')
rl_print_last ==
    /\ pc = "rl_print_last"
    /\ Return("rl_ray_shutdown", "print last")
    /\ lines' = Append(lines, LastLine(last_checkpoint))
    /\ UNCHANGED <<rayUp, N_ITER, n, last_checkpoint, result, config,
                   rlTrainer, DEFAULT_CONFIG, heap, checkpoints, rlFrame>>

\* ray.shutdown()   (last cell)
rl_ray_shutdown ==
    /\ pc = "rl_ray_shutdown"
    /\ \/ /\ Return("done", "ray.shutdown")
          /\ rayUp' = FALSE
       \/ /\ Raise("ray.shutdown")
          /\ UNCHANGED rayUp
    /\ UNCHANGED <<rlFrame, rlVars>>

\* ===================================================== the tuning notebook
\* What the statements of this notebook, and the functions Ray runs for it,
\* leave alone.
tuneRest == <<i, calls, exc, sgdLocals, sanity, mlVars, sessionVars, rlVars,
              shVars>>
tuneFrame == <<rayUp, tuneRest>>

\* "alpha": tune.grid_search([0.001, 0.01, 0.1]), in thousandths: one trial
\* for each value.
AlphaGrid == <<1, 10, 100>>
\* "beta": tune.choice([1, 2, 3]): drawn for each trial.
BetaChoices == {1, 2, 3}
\* for step in range(10)
TuneSteps == 10

Trials == 1..Len(AlphaGrid)

\* objective(step, alpha, beta) = (0.1 + alpha * step / 100)**(-1) + beta * 0.1
\* as the exact fraction <<numerator, denominator>>, alpha in thousandths.
objective(step, alpha, beta) ==
    <<1000000 + beta * (10000 + alpha * step), 10 * (10000 + alpha * step)>>

RunningTrials == {t \in Trials : trials[t].status = "RUNNING"}

\* analysis = tune.run(training_function, config={...}): the call is made;
\* the notebook has no ray.init(), Tune starts Ray itself when it is not
\* initialised; Tune draws the configuration of each trial and the driver
\* waits.
tn_tune_run ==
    /\ pc = "tn_tune_run"
    /\ pc' = "tn_blocked"
    /\ rayUp' = TRUE
    /\ \E betas \in [Trials -> BetaChoices] :
          trials' = [t \in Trials |->
                        [alpha |-> AlphaGrid[t], beta |-> betas[t],
                         status |-> "PENDING", step |-> 0,
                         mean_loss |-> <<0, 1>>, reports |-> 0]]
    /\ UNCHANGED <<cpus, creators, tuneRest>>

\* Ray starts training_function(config) for a pending trial in a worker of
\* its own, as long as it has a CPU free: alpha, beta = config[...]
training_function_start(t) ==
    /\ pc = "tn_blocked"
    /\ trials[t].status = "PENDING"
    /\ Cardinality(RunningTrials) < cpus
    /\ trials' = [trials EXCEPT ![t].status = "RUNNING"]
    /\ UNCHANGED <<pc, cpus, creators, tuneFrame>>

\* One iteration of the loop of training_function:
\* intermediate_score = objective(step, alpha, beta);
\* tune.report(mean_loss=intermediate_score)
training_function_step(t) ==
    /\ trials[t].status = "RUNNING"
    /\ trials[t].step < TuneSteps
    /\ trials' = [trials EXCEPT
                    ![t].mean_loss =
                        objective(trials[t].step, trials[t].alpha,
                                  trials[t].beta),
                    ![t].reports = @ + 1,
                    ![t].step = @ + 1]
    /\ UNCHANGED <<pc, cpus, creators, tuneFrame>>

\* training_function returns after its last iteration.
training_function_return(t) ==
    /\ trials[t].status = "RUNNING"
    /\ trials[t].step = TuneSteps
    /\ trials' = [trials EXCEPT ![t].status = "TERMINATED"]
    /\ UNCHANGED <<pc, cpus, creators, tuneFrame>>

\* (mutant) tune.run does not wait for the trials
TuneRunReturnsAtOnce == TRUE

\* tune.run returns when every trial is over.
TuneRunOver == \A t \in Trials : trials[t].status = "TERMINATED"

tn_tune_run_return ==
    /\ pc = "tn_blocked"
    /\ TuneRunOver
    /\ pc' = "tn_print_best"
    /\ UNCHANGED <<tuneVars, tuneFrame>>

\* print("Best config: ", analysis.get_best_config(metric="mean_loss",
\*                                                 mode="min"))
tn_print_best ==
    /\ pc = "tn_print_best"
    /\ pc' = "tn_results_df"
    /\ UNCHANGED <<tuneVars, tuneFrame>>

\* df = analysis.results_df
tn_results_df ==
    /\ pc = "tn_results_df"
    /\ pc' = "done"
    /\ UNCHANGED <<tuneVars, tuneFrame>>

\* ----------------------------- TFTrainer(...) of train_example, seen closely
\* train_example() is called with its defaults: num_replicas=1.
num_replicas == 1
Replicas == 1..num_replicas
Creators == {"simple_model", "simple_dataset"}
NoCreators == [w \in Replicas |-> [c \in Creators |-> "idle"]]

RunningCreators ==
    {wc \in Replicas \X Creators : creators[wc[1]][wc[2]] = "running"}

\* trainer = TFTrainer(model_creator=simple_model,
\*                     data_creator=simple_dataset, num_replicas=..., ...):
\* the call is made and the driver waits for the replicas to be set up.
cn_construct ==
    /\ pc = "cn_construct"
    /\ pc' = "cn_blocked"
    /\ UNCHANGED <<tuneVars, tuneFrame>>

\* The worker of replica w calls a creator function; a worker does one thing
\* at a time.
creator_start(w, c) ==
    /\ pc = "cn_blocked"
    /\ creators[w][c] = "idle"
    /\ \A d \in Creators : creators[w][d] # "running"
    /\ creators' = [creators EXCEPT ![w][c] = "running"]
    /\ UNCHANGED <<pc, trials, cpus, tuneFrame>>

\* simple_model(config) / simple_dataset(config) returns.
creator_return(w, c) ==
    /\ creators[w][c] = "running"
    /\ creators' = [creators EXCEPT ![w][c] = "returned"]
    /\ UNCHANGED <<pc, trials, cpus, tuneFrame>>

\* TFTrainer(...) returns when every replica has its model and its datasets.
ConstructOver ==
    \A w \in Replicas : \A c \in Creators : creators[w][c] = "returned"

cn_construct_return ==
    /\ pc = "cn_blocked"
    /\ ConstructOver
    /\ pc' = "done"
    /\ UNCHANGED <<tuneVars, tuneFrame>>

\* ========================================================= the start script
\* Texts are sequences of characters.

\* What the steps of the script leave alone.
shFrame == <<i, exc, rayUp, sgdLocals, sanity, mlVars, sessionVars, rlVars,
             tuneVars>>

PLACEHOLDER ==
    <<"D", "A", "S", "K", "_", "D", "A", "S", "H", "B", "O", "A", "R", "D",
      "_", "U", "R", "L">>

\* The values the two environment variables take: texts of at most
\* MaxValueLen characters, one of them plain, '&' and '|' special to sed.
ValueChars == {"/", "u", "&", "|"}
RECURSIVE TextsUpTo(_, _)
TextsUpTo(chars, len) ==
    IF len = 0 THEN {<<>>}
    ELSE LET shorter == TextsUpTo(chars, len - 1)
         IN  shorter \cup {Append(t, c) : t \in shorter, c \in chars}
Values == TextsUpTo(ValueChars, MaxValueLen)

\* The workspace file: at most MaxChunks pieces, each the placeholder or
\* another character.
FileChunks == {PLACEHOLDER, <<"x">>}
RECURSIVE FilesUpTo(_)
FilesUpTo(k) ==
    IF k = 0 THEN {<<>>}
    ELSE LET shorter == FilesUpTo(k - 1)
         IN  shorter \cup {t \o c : t \in shorter, c \in FileChunks}
Files == FilesUpTo(MaxChunks)

\* "s|DASK_DASHBOARD_URL|${JUPYTERHUB_BASE_URL}user/${JUPYTERHUB_USER}/proxy/8787|g"
\* after the shell has put the values of the two variables into it
SedScript(base, user) ==
    <<"s", "|">> \o PLACEHOLDER \o <<"|">> \o base
    \o <<"u", "s", "e", "r", "/">> \o user
    \o <<"/", "p", "r", "o", "x", "y", "/", "8", "7", "8", "7">>
    \o <<"|", "g">>

\* The position of the first `delim` of text at or after `from`, or 0.
\* (No value holds a backslash, so no delimiter is escaped.)
RECURSIVE NextDelim(_, _, _)
NextDelim(text, delim, from) ==
    IF from > Len(text) THEN 0
    ELSE IF text[from] = delim THEN from
    ELSE NextDelim(text, delim, from + 1)

SedFlags == {"g", "p", "i", "I", "m", "M", "e",
             "0", "1", "2", "3", "4", "5", "6", "7", "8", "9"}

\* sed reads an s command: s, a delimiter, the pattern up to the next
\* delimiter, the replacement up to the next one, and flags to the end. A
\* missing delimiter or an unknown flag is an error.
ParseS(script) ==
    LET delim == script[2]
        a == NextDelim(script, delim, 3)
        b == IF a = 0 THEN 0 ELSE NextDelim(script, delim, a + 1)
        flags == SubSeq(script, b + 1, Len(script))
    IN  IF b = 0 \/ \E k \in 1..Len(flags) : flags[k] \notin SedFlags
        THEN [ok |-> FALSE, pattern |-> <<>>, replacement |-> <<>>,
              global |-> FALSE]
        ELSE [ok |-> TRUE,
              pattern |-> SubSeq(script, 3, a - 1),
              replacement |-> SubSeq(script, a + 1, b - 1),
              global |-> \E k \in 1..Len(flags) : flags[k] = "g"]

\* The text a match is replaced by: & in the replacement stands for the
\* matched text.
RECURSIVE Expand(_, _)
Expand(replacement, matched) ==
    IF replacement = <<>> THEN <<>>
    ELSE (IF Head(replacement) = "&" THEN matched ELSE <<Head(replacement)>>)
         \o Expand(Tail(replacement), matched)

StartsWith(text, pattern) ==
    Len(text) >= Len(pattern) /\ SubSeq(text, 1, Len(pattern)) = pattern

\* s/pattern/replacement/ on a text: the leftmost match and, with g, every
\* later match that does not overlap an earlier one. The pattern is plain
\* text here.
RECURSIVE Substitute(_, _, _, _)
Substitute(text, pattern, replacement, global) ==
    IF text = <<>> \/ pattern = <<>> THEN text
    ELSE IF StartsWith(text, pattern)
    THEN Expand(replacement, pattern)
         \o (IF global
             THEN Substitute(SubSeq(text, Len(pattern) + 1, Len(text)),
                             pattern, replacement, global)
             ELSE SubSeq(text, Len(pattern) + 1, Len(text)))
    ELSE <<Head(text)>> \o Substitute(Tail(text), pattern, replacement, global)

\* sed -i -e script file: the file after the command, and sed's exit status.
SedInPlace(text, script) ==
    LET cmd == ParseS(script)
    IN  IF cmd.ok
        THEN [file |-> Substitute(text, cmd.pattern, cmd.replacement,
                                  cmd.global),
              exit_status |-> 0]
        ELSE [file |-> text, exit_status |-> 1]

\* sed -i -e "s|DASK_DASHBOARD_URL|...|g" binder/jupyterlab-workspace.json
\* The script does not stop on a failing command (no set -e).
sh_sed ==
    /\ pc = "sh_sed"
    /\ pc' = "sh_import"
    /\ calls' = Append(calls, "sed")
    /\ LET r == SedInPlace(file, SedScript(JUPYTERHUB_BASE_URL,
                                           JUPYTERHUB_USER))
       IN  file' = r.file /\ exit_status' = r.exit_status
    /\ UNCHANGED <<file0, JUPYTERHUB_BASE_URL, JUPYTERHUB_USER, HOME, PATH,
                   args, imported, command, shFrame>>

\* jupyter lab workspaces import binder/jupyterlab-workspace.json
\* (it may fail; the script goes on)
sh_import ==
    /\ pc = "sh_import"
    /\ pc' = "sh_path"
    /\ calls' = Append(calls, "jupyter lab workspaces import")
    /\ \E st \in {0, 1} :
          /\ exit_status' = st
          /\ imported' = [attempted |-> TRUE, ok |-> st = 0, text |-> file]
    /\ UNCHANGED <<file, file0, JUPYTERHUB_BASE_URL, JUPYTERHUB_USER, HOME,
                   PATH, args, command, shFrame>>

\* A PATH is the sequence of its entries; an entry is a sequence of pieces.
SparkBin(home) == <<home, "/spark-2.4.4-bin-hadoop2.7", "/bin">>

\* (mutant) the directory is put after the entries PATH has
AppendToPath(entry, path) ==
    (IF path = <<>> THEN <<<<>>>> ELSE path) \o <<entry>>

\* entry:$PATH  (an empty PATH leaves one empty entry after the colon)
PrependToPath(entry, path) ==
    <<entry>> \o (IF path = <<>> THEN <<<<>>>> ELSE path)

\* SPARK_HOME=$HOME/spark-2.4.4-bin-hadoop2.7
\* export PATH=$SPARK_HOME/bin:$PATH
sh_path ==
    /\ pc = "sh_path"
    /\ pc' = "sh_exec"
    /\ calls' = Append(calls, "export PATH")
    /\ PATH' = PrependToPath(SparkBin(HOME), PATH)
    /\ exit_status' = 0
    /\ UNCHANGED <<file, file0, JUPYTERHUB_BASE_URL, JUPYTERHUB_USER, HOME,
                   args, imported, command, shFrame>>

\* exec "$@": the shell becomes the command, with the environment the script
\* exported. With no arguments exec does nothing and the script ends; a
\* command that cannot be executed ends the shell.
sh_exec ==
    /\ pc = "sh_exec"
    /\ calls' = Append(calls, "exec")
    /\ \/ /\ args = <<>>
          /\ pc' = "sh_exit"
          /\ exit_status' = 0
          /\ UNCHANGED command
       \/ /\ args # <<>>
          /\ pc' = "sh_command"
          /\ command' = [argv |-> args, PATH |-> PATH]
          /\ UNCHANGED exit_status
       \/ /\ args # <<>>
          /\ pc' = "sh_exit"
          /\ exit_status' = 127
          /\ UNCHANGED command
    /\ UNCHANGED <<file, file0, JUPYTERHUB_BASE_URL, JUPYTERHUB_USER, HOME,
                   PATH, args, imported, shFrame>>

\* ================================================================ sessions
\* What a session holds is gone when it ends; what the libraries wrote to the
\* disk (the MLflow store under ./mlruns, the checkpoints) is not.
NoConfig == [unset |-> TRUE]
NoImport == [attempted |-> FALSE, ok |-> FALSE, text |-> <<>>]
NoCommand == [argv |-> <<>>, PATH |-> <<>>]
NoTrials ==
    [t \in Trials |-> [alpha |-> AlphaGrid[t], beta |-> 1, status |-> "NONE",
                       step |-> 0, mean_loss |-> <<0, 1>>, reports |-> 0]]

\* The library's DEFAULT_CONFIG as imported: its entries the cells assign to,
\* with the nested 'model' dict as object 1 of the heap.
LibraryConfig ==
    [log_level |-> "WARN", num_workers |-> 0, num_cpus_per_worker |-> 1,
     model |-> 1]
LibraryHeap == <<[fcnet_hiddens |-> <<256, 256>>]>>

\* A fresh kernel that is to execute the statement `start` first.
FreshSession(start) ==
    /\ dask = "none"
    /\ pc = start
    /\ i = 0
    /\ calls = <<>>
    /\ exc = NoExc
    /\ rayUp = FALSE
    /\ trainer = NoTrainer
    /\ start_stats = NoStats
    /\ end_stats = NoStats
    /\ train_stats = NoStats
    /\ val_stats = NoStats
    /\ dloss = 0
    /\ dmse = 0
    /\ sanity = None
    /\ activeRun = 0
    /\ experiment_id = 0
    /\ client = FALSE
    /\ run = 0
    /\ ml_run = 0
    /\ N_ITER = 0
    /\ n = 0
    /\ last_checkpoint = <<>>
    /\ result = NoResult
    /\ config = NoConfig
    /\ rlTrainer = NoTrainer
    /\ DEFAULT_CONFIG = LibraryConfig
    /\ heap = LibraryHeap
    /\ lines = <<>>
    /\ trials = NoTrials
    /\ creators = NoCreators

\* The kernel's process ends: everything it held is as in a fresh kernel.
ResetSession ==
    /\ dask' = "none"
    /\ pc' = "idle"
    /\ i' = 0
    /\ calls' = <<>>
    /\ exc' = NoExc
    /\ rayUp' = FALSE
    /\ trainer' = NoTrainer
    /\ start_stats' = NoStats
    /\ end_stats' = NoStats
    /\ train_stats' = NoStats
    /\ val_stats' = NoStats
    /\ dloss' = 0
    /\ dmse' = 0
    /\ sanity' = None
    /\ activeRun' = 0
    /\ experiment_id' = 0
    /\ client' = FALSE
    /\ run' = 0
    /\ ml_run' = 0
    /\ N_ITER' = 0
    /\ n' = 0
    /\ last_checkpoint' = <<>>
    /\ result' = NoResult
    /\ config' = NoConfig
    /\ rlTrainer' = NoTrainer
    /\ DEFAULT_CONFIG' = LibraryConfig
    /\ heap' = LibraryHeap
    /\ lines' = <<>>
    /\ trials' = NoTrials
    /\ creators' = NoCreators

EmptyDisk ==
    /\ mlRuns = <<>>
    /\ experiments = <<>>
    /\ checkpoints = {}

NoScript ==
    /\ file = <<>>
    /\ file0 = <<>>
    /\ JUPYTERHUB_BASE_URL = <<>>
    /\ JUPYTERHUB_USER = <<>>
    /\ HOME = ""
    /\ PATH = <<>>
    /\ args = <<>>
    /\ exit_status = 0
    /\ imported = NoImport
    /\ command = NoCommand

Notebooks == {"sgd", "dqn", "ppo"}
FirstStatement(b) == IF b = "sgd" THEN "ray_init" ELSE "rl_ray_shutdown0"

\* A kernel is started for a notebook, which is then run top to bottom.
StartSession(b) ==
    /\ pc = "idle"
    /\ session \in {"none", "earlier"}
    /\ session' = IF session = "none" THEN "earlier" ELSE "later"
    /\ nb' = b
    /\ pc' = FirstStatement(b)
    /\ UNCHANGED <<i, calls, exc, rayUp, sgdLocals, sanity, mlVars, faults, dask,
                   rlVars, tuneVars, shVars>>

\* (mutant) ending the session removes what it wrote
EndSessionWipes ==
    /\ pc \in {"done", "raised"}
    /\ session \in {"earlier", "later"}
    /\ ResetSession
    /\ mlRuns' = <<>>
    /\ experiments' = <<>>
    /\ checkpoints' = {}
    /\ nb' = None
    /\ UNCHANGED <<faults, session, cpus, shVars>>

\* The kernel is shut down after the notebook ran to its end or stopped at an
\* exception: every Python object, Ray and the active run are gone with the
\* process; the files are not.
EndSession ==
    /\ pc \in {"done", "raised"}
    /\ session \in {"earlier", "later"}
    /\ ResetSession
    /\ nb' = None
    /\ UNCHANGED <<mlRuns, experiments, checkpoints, faults, session, cpus,
                   shVars>>

\* ------------------------------------------------------ the specifications
\* Spec: the RaySGD + MLflow notebook, one session on an empty disk.
Init ==
    /\ FreshSession("ray_init")
    /\ EmptyDisk
    /\ NoScript
    /\ faults = TRUE
    /\ nb = "sgd"
    /\ session = "earlier"
    /\ cpus = 1

Next ==
    \/ ray_init
    \/ te_construct \/ te_validate1 \/ te_print1 \/ te_train1 \/ te_train2
    \/ te_validate2 \/ te_print2 \/ te_dloss \/ te_check \/ te_return
    \/ td_construct \/ td_validate1 \/ td_print1 \/ td_train \/ td_validate2
    \/ td_print2
    \/ m1_log_param_foo \/ m1_log_param_bar \/ m1_log_metric \/ m1_end_run
    \/ m2_start_run \/ m2_log_metric \/ m2_exit
    \/ m3_create_experiment \/ m4_client
    \/ m5_create_run \/ m5_log_param \/ m5_set_terminated
    \/ tdm_construct \/ tdm_validate1 \/ tdm_print1 \/ tdm_create_run
    \/ tdm_train \/ tdm_validate \/ tdm_log_validation \/ tdm_log_training
    \/ tdm_set_terminated \/ tdm_validate2 \/ tdm_print2
    \/ ray_shutdown

Spec == Init /\ [][Next]_vars

\* SpecRL: the DQN cells or the PPO cells, one session on an empty disk.
InitRL ==
    /\ FreshSession("rl_ray_shutdown0")
    /\ EmptyDisk
    /\ NoScript
    /\ faults = TRUE
    /\ nb \in {"dqn", "ppo"}
    /\ session = "earlier"
    /\ cpus = 1

NextRL ==
    \/ rl_ray_shutdown0 \/ rl_ray_init \/ rl_config \/ rl_trainer \/ rl_loop
    \/ rl_train \/ rl_save \/ rl_print \/ rl_print_last \/ rl_ray_shutdown

SpecRL == InitRL /\ [][NextRL]_vars

\* SpecSessions: an earlier and a later session, each of any of the notebooks,
\* on a disk that starts empty; no library call fails for a reason outside
\* the notebooks.
InitSessions ==
    /\ FreshSession("idle")
    /\ EmptyDisk
    /\ NoScript
    /\ faults = FALSE
    /\ nb = None
    /\ session = "none"
    /\ cpus = 1

NextSessions ==
    \/ \E b \in Notebooks : StartSession(b)
    \/ EndSession
    \/ Next
    \/ NextRL

SpecSessions == InitSessions /\ [][NextSessions]_vars

\* SpecNotebooks: one session of one of the notebooks that use Ray, run top
\* to bottom on an empty disk.
RayNotebooks == Notebooks \cup {"tune"}

InitNotebooks ==
    /\ \E b \in RayNotebooks :
          /\ nb = b
          /\ FreshSession(IF b = "tune" THEN "tn_tune_run"
                          ELSE FirstStatement(b))
          /\ cpus \in (IF b = "tune" THEN 1..MaxCpus ELSE {1})
    /\ EmptyDisk
    /\ NoScript
    /\ faults = TRUE
    /\ session = "earlier"

NextNotebooks ==
    \/ Next
    \/ NextRL
    \/ tn_tune_run
    \/ \E t \in Trials : training_function_start(t)
    \/ \E t \in Trials : training_function_step(t)
    \/ \E t \in Trials : training_function_return(t)
    \/ tn_tune_run_return \/ tn_print_best \/ tn_results_df

SpecNotebooks == InitNotebooks /\ [][NextNotebooks]_vars

\* SpecModeling: the feature-engineering and modeling notebook, its Dask
\* cells and then its DQN cells, one session on an empty disk.
InitModeling ==
    /\ FreshSession("dk_client")
    /\ EmptyDisk
    /\ NoScript
    /\ faults = TRUE
    /\ nb = "dqn"
    /\ session = "earlier"
    /\ cpus = 1

NextModeling ==
    \/ dk_client
    \/ \E k \in 1..Len(DaskStatements) : dk_statement(k)
    \/ dk_close
    \/ NextRL

SpecModeling == InitModeling /\ [][NextModeling]_vars

\* SpecConfig: train_example or train_diamonds called with any batch size,
\* the diamonds file having any number of rows, up to the construction of
\* the trainer.
InitConfig ==
    /\ \E start \in {"te_construct", "td_construct"} : FreshSession(start)
    /\ EmptyDisk
    /\ NoScript
    /\ faults = TRUE
    /\ nb = "sgd"
    /\ session = "earlier"
    /\ cpus = 1

NextConfig ==
    \/ \E b \in BatchSizes : te_construct_with(b)
    \/ \E b \in BatchSizes : \E rows \in RowChoices : td_construct_with(b, rows)

SpecConfig == InitConfig /\ [][NextConfig]_vars

\* SpecTune: the tuning cell on a machine with some CPUs, or the TFTrainer(...)
\* of train_example with the functions it is given.
InitTune ==
    /\ \E b \in {"tune", "construct"} :
          /\ nb = b
          /\ FreshSession(IF b = "tune" THEN "tn_tune_run" ELSE "cn_construct")
    /\ EmptyDisk
    /\ NoScript
    /\ faults = FALSE
    /\ session = "earlier"
    /\ cpus \in 1..MaxCpus

NextTune ==
    \/ tn_tune_run
    \/ \E t \in Trials : training_function_start(t)
    \/ \E t \in Trials : training_function_step(t)
    \/ \E t \in Trials : training_function_return(t)
    \/ tn_tune_run_return \/ tn_print_best \/ tn_results_df
    \/ cn_construct
    \/ \E w \in Replicas, c \in Creators : creator_start(w, c)
    \/ \E w \in Replicas, c \in Creators : creator_return(w, c)
    \/ cn_construct_return

SpecTune == InitTune /\ [][NextTune]_vars

\* SpecStart: the start script, for some workspace file, environment and
\* command.
Homes == {"/home/jovyan", ""}
Paths == {<<>>, <<<<"/usr/bin">>>>}
Commands == {<<>>, <<"jupyter", "lab">>}

InitStart ==
    /\ FreshSession("sh_sed")
    /\ EmptyDisk
    /\ faults = FALSE
    /\ nb = "start"
    /\ session = "earlier"
    /\ cpus = 1
    /\ file \in Files
    /\ file0 = file
    /\ JUPYTERHUB_BASE_URL \in Values
    /\ JUPYTERHUB_USER \in Values
    /\ HOME \in Homes
    /\ PATH \in Paths
    /\ args \in Commands
    /\ exit_status = 0
    /\ imported = NoImport
    /\ command = NoCommand

NextStart == sh_sed \/ sh_import \/ sh_path \/ sh_exec

SpecStart == InitStart /\ [][NextStart]_vars

\* ================================================================ properties
IsPrefix(s, t) == Len(s) <= Len(t) /\ SubSeq(t, 1, Len(s)) = s

RECURSIVE Repeat(_, _)
Repeat(s, times) == IF times = 0 THEN <<>> ELSE s \o Repeat(s, times - 1)

\* ------------------------------------------------------------------- C6
TrainerOps == {"TFTrainer", "validate", "train"}
OnTrainer(s) == SelectSeq(s, LAMBDA c : c \in TrainerOps)
TrainExampleOps == <<"TFTrainer", "validate", "train", "train", "validate">>

\* The calls of the first code cell that makes any: ray.init(), then
\* train_example() up to its sanity message.
TrainExampleCalls ==
    <<"ray.init", "TFTrainer", "validate", "print", "train", "train",
      "validate", "print", "print dLoss">>

InTrainExample ==
    \/ pc \in {"te_construct", "te_validate1", "te_print1", "te_train1",
               "te_train2", "te_validate2", "te_print2", "te_dloss",
               "te_check", "te_return"}
    \/ pc = "raised" /\ exc.at <= Len(TrainExampleCalls)

\* C6: train_example constructs one TFTrainer, validates once for the starting
\* stats, trains exactly twice, validates once for the final stats, in this
\* order and with no other call on the trainer (at every point of the function
\* the calls made on the trainer are a prefix of that sequence, all of it once
\* the loss change is computed), and the loss change is the final
\* validation_loss minus the starting one.
C6_TrainExampleOrder ==
    /\ InTrainExample => IsPrefix(OnTrainer(calls), TrainExampleOps)
    /\ pc \in {"te_check", "te_return"} =>
          /\ OnTrainer(calls) = TrainExampleOps
          /\ dloss = end_stats.validation_loss - start_stats.validation_loss
          /\ dmse = end_stats.validation_mean_squared_error
                      - start_stats.validation_mean_squared_error

\* train_example ran to its end and the loss went down.
C6_Witness == pc = "te_return" /\ dloss < 0 /\ OnTrainer(calls) = TrainExampleOps

\* ------------------------------------------------------------------- C7
\* C7 (as claimed): the sanity check prints 'success!' only when the final
\* validation_loss is strictly lower than the starting one, and the failure
\* message in every other case.
C7_SuccessOnlyWhenLossWentDown ==
    pc = "te_return" =>
        /\ sanity = Success =>
              end_stats.validation_loss < start_stats.validation_loss
        /\ ~(end_stats.validation_loss < start_stats.validation_loss) =>
              sanity = Failed

\* ------------------------------------------------------------------- C2
\* The notebook read as a linear sequence whose only control flow is loops:
\* every statement of a body is executed each time the body is.
LinearCalls ==
    TrainExampleCalls \o <<Failed, Success>>
    \o <<"TFTrainer", "validate", "print">> \o Repeat(<<"train">>, 32)
    \o <<"validate", "print">>
    \o <<"log_param", "log_param">> \o Repeat(<<"log_metric">>, 10)
    \o <<"end_run">>
    \o <<"start_run">> \o Repeat(<<"log_metric">>, 10) \o <<"end_run">>
    \o <<"create_experiment", "MlflowClient">>
    \o <<"create_run", "client.log_param", "set_terminated">>
    \o <<"TFTrainer", "validate", "print", "create_run">>
    \o Repeat(<<"train", "validate", "client.log_metric",
                "client.log_metric">>, 32)
    \o <<"set_terminated", "validate", "print", "ray.shutdown">>

\* C2 (as claimed): what is executed, and in which order, is one linear
\* sequence that depends neither on a returned value nor on a branch.
C2_LinearSequence == pc = "done" => calls = LinearCalls

\* The notebook as it runs: one of the two sanity messages, and validate and
\* the two log_metric calls in the even iterations only.
NotebookCalls(message) ==
    TrainExampleCalls \o <<message>>
    \o <<"TFTrainer", "validate", "print">> \o Repeat(<<"train">>, 32)
    \o <<"validate", "print">>
    \o <<"log_param", "log_param">> \o Repeat(<<"log_metric">>, 10)
    \o <<"end_run">>
    \o <<"start_run">> \o Repeat(<<"log_metric">>, 10) \o <<"end_run">>
    \o <<"create_experiment", "MlflowClient">>
    \o <<"create_run", "client.log_param", "set_terminated">>
    \o <<"TFTrainer", "validate", "print", "create_run">>
    \o Repeat(<<"train", "validate", "client.log_metric",
                "client.log_metric", "train">>, 16)
    \o <<"set_terminated", "validate", "print", "ray.shutdown">>

\* C2 (amended): the library calls executed, and their order, do not depend on
\* any returned value: at every point the calls made are a prefix of one fixed
\* sequence, up to the one sanity message that the branch of train_example
\* chose, and with validate and log_metric in the even iterations of
\* train_diamonds_mlflow only.
C2_CallsFixedUpToBranches ==
    /\ \E m \in {Failed, Success} : IsPrefix(calls, NotebookCalls(m))
    /\ pc = "done" => \E m \in {Failed, Success} : calls = NotebookCalls(m)

\* The notebook ran to its end after a failed sanity check.
C2_Witness == pc = "done" /\ sanity = Failed /\ calls = NotebookCalls(Failed)

\* ------------------------------------------------------------------- C4
\* C4: when a library call raises, the exception leaves the function and the
\* cell: the failing call is the last thing executed, it is not attempted
\* again and no later statement runs.
C4_ExceptionPropagates ==
    /\ exc # NoExc =>
          /\ pc = "raised"
          /\ Len(calls) = exc.at
          /\ calls[exc.at] = exc.call
    /\ pc = "raised" => exc # NoExc

\* train() raised in the loop of train_diamonds_mlflow.
C4_Witness ==
    /\ pc = "raised" /\ exc.call = "train" /\ ml_run # 0 /\ i > 2

\* ------------------------------------------------------------------ C10
RunIds == 1..Len(mlRuns)

\* C10: when no call raises, no run is ended twice, a run is over exactly when
\* it was ended once, nothing is logged to a run that is over, a cell leaves
\* no run behind it that is still running, and at the end of the notebook all
\* four runs are over.
C10_RunsEndedOnce ==
    exc = NoExc =>
        /\ \A r \in RunIds :
              /\ mlRuns[r].lateLogs = 0
              /\ mlRuns[r].ends <= 1
              /\ (mlRuns[r].status # "RUNNING") = (mlRuns[r].ends = 1)
              /\ mlRuns[r].status = "RUNNING" =>
                    \/ r = activeRun
                    \/ r = run /\ pc \in {"m5_log_param", "m5_set_terminated"}
                    \/ r = ml_run /\ pc \in {"tdm_train", "tdm_validate",
                           "tdm_log_validation", "tdm_log_training",
                           "tdm_set_terminated"}
        /\ pc \in {"m2_start_run", "m3_create_experiment", "m4_client",
                   "m5_create_run", "done"} => activeRun = 0
        /\ pc = "done" =>
              /\ Len(mlRuns) = 4
              /\ \A r \in RunIds : mlRuns[r].ends = 1

\* The notebook ran to its end: the run of train_diamonds_mlflow got its 32
\* metric points and was terminated.
C10_Witness ==
    /\ pc = "done" /\ exc = NoExc /\ Len(mlRuns) = 4
    /\ mlRuns[4].metrics = 32 /\ mlRuns[4].status = "FINISHED"
    /\ mlRuns[1].params = 2 /\ mlRuns[2].metrics = 10

\* ------------------------------------------------------------------- C8
RLCalls(b, k) ==
    <<"ray.shutdown", "ray.init", TrainerClass(b)>>
    \o Repeat(<<"train", "save", "print">>, k)
    \o <<"print last", "ray.shutdown">>

ResultLines(k) ==
    [j \in 1..k |-> [kind |-> "result", n |-> j - 1, path |-> <<>>]]

\* C8: the loop calls train() N_ITER times, each followed by one save before
\* the next train(), and prints one result line for each n = 0..N_ITER-1 in
\* increasing order (at every point the calls made are a prefix of that
\* sequence); the path printed after the loop is the one the save of the last
\* iteration returned, the checkpoint of iteration N_ITER, and the empty
\* string when N_ITER is 0.
C8_TrainSaveLoop ==
    /\ IsPrefix(calls, RLCalls(nb, N_ITER))
    /\ pc \in {"rl_ray_shutdown", "done"} =>
          /\ rlTrainer.iteration = N_ITER
          /\ Cardinality(checkpoints) = N_ITER
          /\ last_checkpoint =
                IF N_ITER = 0 THEN <<>> ELSE <<"checkpoints", N_ITER>>
          /\ lines = Append(ResultLines(N_ITER), LastLine(last_checkpoint))
    /\ pc = "done" => calls = RLCalls(nb, N_ITER)

\* The DQN cells ran to the end with the 50 training runs of the source.
C8_Witness ==
    /\ pc = "done" /\ nb = "dqn" /\ N_ITER = 50
    /\ last_checkpoint = <<"checkpoints", 50>>

\* ------------------------------------------------------------------- C9
ScriptSteps ==
    <<"sed", "jupyter lab workspaces import", "export PATH", "exec">>

\* C9: the script rewrites the placeholder, imports the workspace, prepends
\* the Spark bin directory to PATH and execs its arguments, in this order
\* (the steps taken are always a prefix of this sequence); the command starts
\* only after the import was attempted, with the Spark bin directory as first
\* entry of its PATH, and once the script has exec'ed or ended, exec was its
\* last step.
C9_StartScriptOrder ==
    /\ IsPrefix(calls, ScriptSteps)
    /\ pc = "sh_command" =>
          /\ imported.attempted
          /\ command.argv = args
          /\ Head(command.PATH) = <<HOME, "/spark-2.4.4-bin-hadoop2.7", "/bin">>
    /\ pc \in {"sh_command", "sh_exit"} => calls = ScriptSteps
    /\ pc \notin {"sh_command", "sh_exit"} => command = NoCommand

\* The command was started although the import had failed, with a PATH that
\* had entries before the script.
C9_Witness ==
    /\ pc = "sh_command" /\ imported.attempted /\ ~imported.ok
    /\ Len(command.PATH) = 2 /\ command.argv = <<"jupyter", "lab">>

\* ------------------------------------------------------------------- C5
Contains(text, pattern) ==
    \E k \in 1..(Len(text) - Len(pattern) + 1) :
        SubSeq(text, k, k + Len(pattern) - 1) = pattern

\* ${JUPYTERHUB_BASE_URL}user/${JUPYTERHUB_USER}/proxy/8787, as a value
ProxyLocation(base, user) ==
    base \o <<"u", "s", "e", "r", "/">> \o user
    \o <<"/", "p", "r", "o", "x", "y", "/", "8", "7", "8", "7">>

\* text with every occurrence of pattern replaced by the value, character for
\* character
RECURSIVE ReplaceEvery(_, _, _)
ReplaceEvery(text, pattern, value) ==
    IF text = <<>> THEN <<>>
    ELSE IF StartsWith(text, pattern)
    THEN value \o ReplaceEvery(SubSeq(text, Len(pattern) + 1, Len(text)),
                               pattern, value)
    ELSE <<Head(text)>> \o ReplaceEvery(Tail(text), pattern, value)

\* C5 (as claimed): after the rewrite step the file holds no DASK_DASHBOARD_URL:
\* every occurrence was replaced by the base URL, 'user/', the user and
\* '/proxy/8787', and nothing else changed.
C5_PlaceholderReplaced ==
    pc # "sh_sed" =>
        /\ ~Contains(file, PLACEHOLDER)
        /\ file = ReplaceEvery(file0, PLACEHOLDER,
                               ProxyLocation(JUPYTERHUB_BASE_URL,
                                             JUPYTERHUB_USER))

\* The same for values that hold no character special to sed: it holds.
PlainValue(v) == \A k \in 1..Len(v) : v[k] \notin {"&", "|"}
PlaceholderReplacedForPlainValues ==
    (PlainValue(JUPYTERHUB_BASE_URL) /\ PlainValue(JUPYTERHUB_USER)) =>
        C5_PlaceholderReplaced

\* ------------------------------------------------------------------- C1
\* C1 (as claimed): at most one invocation of a function of the repository
\* is in progress at any time.
C1_OneInvocationAtATime ==
    Cardinality(RunningTrials) + Cardinality(RunningCreators) <= 1

\* C1 (amended): a function the cells hand to a library runs only while the
\* driver is blocked in that library call, so never interleaved with a cell
\* statement, and the call returns only after every invocation has returned;
\* the creators of the one replica run one at a time; the invocations of
\* training_function, one for each trial, are not exclusive: as many are in
\* progress as Ray has CPUs for.
C1_OnlyWhileDriverBlocked ==
    /\ RunningTrials # {} => pc = "tn_blocked"
    /\ RunningCreators # {} => pc = "cn_blocked"
    /\ Cardinality(RunningCreators) <= 1
    /\ Cardinality(RunningTrials) <= cpus
    /\ (nb = "tune" /\ pc \in {"tn_print_best", "tn_results_df", "done"}) =>
          \A t \in Trials :
              trials[t].status = "TERMINATED" /\ trials[t].reports = TuneSteps
    /\ (nb = "construct" /\ pc = "done") =>
          \A w \in Replicas : \A c \in Creators : creators[w][c] = "returned"

\* Two invocations of training_function are in the middle of their loops.
C1_Witness ==
    /\ pc = "tn_blocked"
    /\ \E t, u \in RunningTrials :
          t # u /\ trials[t].step \in 1..9 /\ trials[u].step \in 1..9

\* ------------------------------------------------------------------- C3
\* C3 (as claimed): after a session has ended, nothing it wrote remains.
C3_NothingRemains ==
    (pc = "idle" /\ session # "none") => EmptyDisk

\* Nothing that is on the disk is removed by a step: the runs of the store
\* and what was logged to them, the experiments, the checkpoints.
DiskKept ==
    /\ Len(mlRuns') >= Len(mlRuns)
    /\ \A r \in 1..Len(mlRuns) :
          /\ mlRuns'[r].experiment = mlRuns[r].experiment
          /\ mlRuns'[r].params >= mlRuns[r].params
          /\ mlRuns'[r].metrics >= mlRuns[r].metrics
    /\ IsPrefix(experiments, experiments')
    /\ checkpoints \subseteq checkpoints'

\* Between two sessions nothing of a session is left in memory.
NothingInMemory ==
    /\ calls = <<>> /\ exc = NoExc /\ ~rayUp
    /\ trainer = NoTrainer /\ rlTrainer = NoTrainer
    /\ activeRun = 0 /\ experiment_id = 0 /\ ~client /\ run = 0 /\ ml_run = 0
    /\ config = NoConfig /\ last_checkpoint = <<>> /\ lines = <<>>

\* C3 (amended): what a session held in memory is gone when it ends, but what
\* it wrote through the libraries stays on the disk, also over the end of the
\* session, and the later session meets it: there create_experiment raises
\* exactly because the experiment of the earlier session exists.
C3_MemoryGoneDiskStays ==
    /\ [](pc = "idle" => NothingInMemory)
    /\ [][DiskKept]_vars
    /\ []((pc = "raised" /\ exc.call = "create_experiment") =>
            (session = "later" /\ ExperimentExists(ExperimentName)
             /\ experiment_id = 0))

\* The later session of the RaySGD + MLflow notebook stopped at
\* create_experiment, with the four runs of the earlier session and its own
\* two in the store.
C3_Witness ==
    /\ session = "later" /\ nb = "sgd" /\ pc = "raised"
    /\ exc.call = "create_experiment" /\ Len(mlRuns) = 6
    /\ mlRuns[4].metrics = 32

\* ------------------------------------------------------------------- C11
\* the calls made after the last call of `name`
AfterLast(s, name) ==
    LET at == {k \in 1..Len(s) : s[k] = name}
        from == IF at = {} THEN 0 ELSE CHOOSE k \in at : \A j \in at : j <= k
    IN SubSeq(s, from + 1, Len(s))

Count(s, name) == Cardinality({k \in 1..Len(s) : s[k] = name})

\* the statements of the loop of train_diamonds_mlflow, and those after it
TdmLoop ==
    {"tdm_train", "tdm_validate", "tdm_log_validation", "tdm_log_training"}
TdmAfterLoop == {"tdm_set_terminated", "tdm_validate2", "tdm_print2"}

\* the calls of train_diamonds_mlflow since its create_run
TdmCalls == AfterLast(calls, "create_run")

\* the even numbers among 0..k-1
EvensBelow(k) == (k + 1) \div 2

\* where the loop stands: in iteration i, having trained, validated and logged
\* for every earlier iteration what its parity asks for
TdmLoopState ==
    LET r == mlRuns[ml_run]
        done == IF pc = "tdm_train" THEN i ELSE i + 1
    IN /\ i \in 0..(DiamondsEpochs - 1)
       /\ pc # "tdm_train" => i % 2 = 0
       /\ Count(TdmCalls, "train") = done
       /\ Count(TdmCalls, "validate") =
             EvensBelow(i) + (IF pc \in {"tdm_log_validation",
                                         "tdm_log_training"} THEN 1 ELSE 0)
       /\ r.count["validation_loss"] =
             EvensBelow(i) + (IF pc = "tdm_log_training" THEN 1 ELSE 0)
       /\ r.count["training_loss"] = EvensBelow(i)
       /\ r.count["score"] = 0
       /\ r.metrics = r.count["validation_loss"] + r.count["training_loss"]
       /\ pc = "tdm_log_training" =>
             r.last = [key |-> "validation_loss", step |-> i,
                       value |-> val_stats.validation_loss]
       /\ (pc = "tdm_train" /\ i % 2 = 1) =>
             r.last = [key |-> "training_loss", step |-> i - 1,
                       value |-> train_stats.train_loss]

\* what the loop has done when it is over
TdmLoopDone(r) ==
    /\ mlRuns[r].count = [k \in MetricKeys |->
                            IF k = "score" THEN 0 ELSE DiamondsEpochs \div 2]
    /\ mlRuns[r].metrics = DiamondsEpochs
    /\ mlRuns[r].step["validation_loss"] = DiamondsEpochs - 2
    /\ mlRuns[r].step["training_loss"] = DiamondsEpochs - 2
    /\ mlRuns[r].last.key = "training_loss"
    /\ mlRuns[r].last.step = DiamondsEpochs - 2

\* a step of the loop that logs: the point has step i, an even i, a later step
\* than the points of its key before, and for the training loss the value of
\* train_stats, which the train() of this iteration returned two calls
\* before (the validate() and the first log_metric lie between)
TdmLogStep ==
    \A key \in MetricKeys :
        (/\ ml_run # 0 /\ ml_run' = ml_run
         /\ mlRuns'[ml_run].count[key] # mlRuns[ml_run].count[key]) =>
            /\ pc \in {"tdm_log_validation", "tdm_log_training"}
            /\ key = (IF pc = "tdm_log_validation" THEN "validation_loss"
                      ELSE "training_loss")
            /\ mlRuns'[ml_run].count[key] = mlRuns[ml_run].count[key] + 1
            /\ mlRuns'[ml_run].step[key] = i /\ i % 2 = 0
            /\ mlRuns'[ml_run].step[key] > mlRuns[ml_run].step[key]
            /\ mlRuns'[ml_run].last =
                  [key |-> key, step |-> i,
                   value |-> IF key = "training_loss"
                             THEN train_stats.train_loss
                             ELSE val_stats.validation_loss]
            /\ LET k == Len(calls) - (IF key = "training_loss" THEN 2 ELSE 1)
               IN /\ calls[k] = "train"
                  /\ Count(TdmCalls, "train") = i + 1

\* train_stats is assigned by train() only (and dropped when the function
\* returns)
TrainStatsFromTrain ==
    train_stats' # train_stats =>
        \/ calls' = Append(calls, "train")
        \/ train_stats' = NoStats

\* C11: train_diamonds_mlflow trains 32 times (i = 0..31); for the even i, and
\* only for them, it validates once after the train() of the iteration and
\* logs one validation_loss and one training_loss with step i, so each metric
\* gets 16 points with strictly increasing steps, and the training_loss logged
\* is the train_loss that the train() of the same iteration returned.
C11_LoggingEveryOtherIteration ==
    /\ []((pc \in TdmLoop /\ ml_run # 0) => TdmLoopState)
    /\ []((pc \in TdmAfterLoop /\ ml_run # 0) =>
            /\ Count(TdmCalls, "train") = DiamondsEpochs
            /\ TdmLoopDone(ml_run))
    /\ [](pc = "done" =>
            /\ Count(AfterLast(calls, "create_run"), "train") = DiamondsEpochs
            /\ TdmLoopDone(Len(mlRuns)))
    /\ [][TdmLogStep /\ TrainStatsFromTrain]_vars

\* The loop is over with 16 points of each metric, the last training loss
\* logged being 1.
C11_Witness ==
    /\ pc = "done" /\ TdmLoopDone(4)
    /\ mlRuns[4].last.value = 1
    /\ Count(calls, "client.log_metric") = DiamondsEpochs

\* ------------------------------------------------------------------- C12
\* A call of the loop of train_diamonds_mlflow raised: a train(), a
\* log_metric (both are called in the loop only), or the validate() that
\* follows a train().
RaisedInTdmLoop ==
    /\ pc = "raised" /\ ml_run # 0
    /\ \/ exc.call \in {"train", "client.log_metric"}
       \/ exc.call = "validate" /\ calls[Len(calls) - 1] = "train"

\* C12: when train(), validate() or log_metric raises in the loop of
\* train_diamonds_mlflow, the function ends with that call: set_terminated is
\* not called for the run created before the loop, which stays RUNNING, never
\* ended, with the points of the log_metric calls that returned.
C12_RunLeftRunning ==
    RaisedInTdmLoop =>
        /\ calls[Len(calls)] = exc.call /\ exc.at = Len(calls)
        /\ Count(TdmCalls, "set_terminated") = 0
        /\ mlRuns[ml_run].status = "RUNNING"
        /\ mlRuns[ml_run].ends = 0
        /\ mlRuns[ml_run].metrics =
              Count(TdmCalls, "client.log_metric")
              - (IF exc.call = "client.log_metric" THEN 1 ELSE 0)

\* The second log_metric of iteration 4 raised: five points are in the run.
C12_Witness ==
    /\ RaisedInTdmLoop /\ exc.call = "client.log_metric" /\ i = 4
    /\ mlRuns[ml_run].metrics = 5 /\ mlRuns[ml_run].status = "RUNNING"

\* ------------------------------------------------------------------- C13
\* The contents of a configuration: its entries, the nested 'model' dict
\* written out.
Contents(cfg, objects) == [cfg EXCEPT !.model = objects[cfg.model]]

\* C13 (as claimed): once the configuration cell has run, the library's
\* DEFAULT_CONFIG, its nested 'model' dict included, has the contents it had
\* before the cell.
C13_DefaultConfigUntouched ==
    config # NoConfig =>
        Contents(DEFAULT_CONFIG, heap) = Contents(LibraryConfig, LibraryHeap)

\* The entries of DEFAULT_CONFIG itself are those of before: the copy has its
\* own entries, and shares only the nested dict.
DefaultConfigEntriesUntouched ==
    /\ DEFAULT_CONFIG = LibraryConfig
    /\ config # NoConfig =>
          /\ config.model = DEFAULT_CONFIG.model
          /\ Contents(config, heap) =
                [log_level |-> "WARN", num_workers |-> 2,
                 num_cpus_per_worker |-> 0,
                 model |-> [fcnet_hiddens |-> <<40, 20>>]]

\* ------------------------------------------------------------------- C14
\* the operations on a trainer
RayTrainerOps ==
    {"TFTrainer", "DQNTrainer", "PPOTrainer", "train", "validate", "save"}

\* C14 (as claimed): every notebook that uses Ray ends with Ray shut down.
C14_EndsWithRayShutDown == pc = "done" => ~rayUp

\* the call a step makes, or None
CallMade ==
    IF Len(calls') = Len(calls) + 1 THEN calls'[Len(calls')] ELSE None

\* A step under Ray: a trainer operation or a step of a trial is made with
\* Ray initialised, a ray.init() with Ray not initialised.
RayStep ==
    /\ CallMade \in RayTrainerOps => rayUp
    /\ CallMade = "ray.init" => ~rayUp
    /\ trials' # trials => rayUp'

\* C14 (amended): in the notebooks that call ray.init() (RaySGD + MLflow, DQN,
\* PPO) every trainer operation is made with Ray initialised, ray.init() is
\* never called while Ray is initialised, and the notebook ends with
\* ray.shutdown() as its last call and Ray shut down; the Tune notebook calls
\* neither ray.init() nor ray.shutdown(): Ray is started by tune.run, the
\* trials run under it, and it is still initialised when the notebook ends.
C14_RayAroundTrainerOperations ==
    /\ [][RayStep]_vars
    /\ []((pc = "done" /\ nb \in Notebooks) =>
            (~rayUp /\ calls[Len(calls)] = "ray.shutdown"))
    /\ []((pc = "done" /\ nb = "tune") =>
            (/\ rayUp
             /\ Count(calls, "ray.init") = 0
             /\ Count(calls, "ray.shutdown") = 0))

\* The Tune notebook has ended, its three trials over, and Ray is initialised.
C14_Witness ==
    /\ pc = "done" /\ nb = "tune" /\ rayUp
    /\ \A t \in Trials : trials[t].status = "TERMINATED"

\* ------------------------------------------------------------------- C15
\* the Dask computations
DaskCalls == {DaskStatements[k].call : k \in 1..Len(DaskStatements)}

\* a Dask computation is made with the client open, a ray.init() with the
\* client closed
DaskStep ==
    /\ CallMade \in DaskCalls => dask = "open"
    /\ CallMade = "ray.init" => dask = "closed"
    /\ dask' # dask => (CallMade = "Client" \/ CallMade = "client.close")

\* the calls of the Dask cells, in order
DaskCellCalls ==
    <<"Client">> \o [k \in 1..Len(DaskStatements) |-> DaskStatements[k].call]
    \o <<"client.close">>

\* C15: in the feature-engineering and modeling notebook the Dask Client is
\* created before the first Dask computation and closed after the last one
\* (read_csv, categorize, fit, predict, mean_squared_error are made while it
\* is open), and it is closed before ray.init() is called: the Dask cluster
\* and Ray are never active at the same time.
C15_DaskClosedBeforeRay ==
    /\ [](~(dask = "open" /\ rayUp))
    /\ [][DaskStep]_vars
    /\ [](IsPrefix(calls, DaskCellCalls) \/ IsPrefix(DaskCellCalls, calls))
    /\ [](rayUp => (dask = "closed" /\ IsPrefix(DaskCellCalls, calls)))

\* The DQN cells train under Ray after all Dask cells have run and the client
\* was closed.
C15_Witness ==
    /\ pc = "rl_save" /\ rayUp /\ dask = "closed"
    /\ IsPrefix(DaskCellCalls, calls) /\ rlTrainer.iteration = 2

\* ------------------------------------------------------------------- C16
\* train_example has constructed its trainer
ExampleTrainer ==
    trainer # NoTrainer /\ trainer.data_creator = "simple_dataset"

\* steps is the whole part of samples / batch
IsFloor(steps, samples, batch) ==
    steps * batch <= samples /\ samples < (steps + 1) * batch

\* C16 (as claimed): for every batch size train_example is called with, both
\* step counts of its configuration are at least 1.
C16_StepsAtLeastOne ==
    ExampleTrainer =>
        /\ trainer.config.fit_config.steps_per_epoch >= 1
        /\ trainer.config.evaluate_config.steps >= 1

\* C16 (amended): for every positive batch size, steps_per_epoch is the whole
\* part of 1000 / batch_size and the evaluation steps that of
\* 400 / batch_size, so neither count times the batch size exceeds its number
\* of samples; steps_per_epoch is at least 1 exactly for the batch sizes up to
\* 1000 and the evaluation steps for those up to 400: train_example takes a
\* larger batch size as well and then configures 0 steps.
C16_StepsAreWholeParts ==
    ExampleTrainer =>
        LET b == trainer.config.batch_size
            s == trainer.config.fit_config.steps_per_epoch
            e == trainer.config.evaluate_config.steps
        IN /\ b \in BatchSizes
           /\ IsFloor(s, NUM_TRAIN_SAMPLES, b)
           /\ IsFloor(e, NUM_TEST_SAMPLES, b)
           /\ s >= 1 <=> b <= NUM_TRAIN_SAMPLES
           /\ e >= 1 <=> b <= NUM_TEST_SAMPLES
           /\ b = DefaultBatchSize => (s = 7 /\ e = 3)

\* train_example(batch_size=512) has its trainer: one step for an epoch, no
\* step for an evaluation.
C16_Witness ==
    /\ ExampleTrainer /\ pc = "te_validate1"
    /\ trainer.config.batch_size = 512
    /\ trainer.config.fit_config.steps_per_epoch = 1
    /\ trainer.config.evaluate_config.steps = 0

\* ------------------------------------------------------------------- C17
\* train_diamonds has constructed its trainer
HasDiamondsTrainer ==
    trainer # NoTrainer /\ trainer.data_creator = "diamonds_dataset"

\* the test rows create_diamonds_config counts its evaluation steps from
DiamondsTestRows == 13940

\* C17 (as claimed): whatever the number of rows of the file, the evaluation
\* steps times the batch size do not exceed the test split.
C17_EvaluateStepsFitTestSplit ==
    HasDiamondsTrainer =>
        trainer.config.evaluate_config.steps * trainer.config.batch_size
            <= trainer.data.test

\* C17 (amended): for every positive batch size, steps_per_epoch times the
\* batch size does not exceed the training split of 40,000 rows; the
\* evaluation steps are the whole part of 13,940 / batch_size whatever the
\* file holds, so they fit the test split when the file has at least 53,940
\* rows; a file of at most 40,000 rows gives no trainer, the split raises.
C17_StepsFitSplitOfFullFile ==
    /\ HasDiamondsTrainer =>
        LET b == trainer.config.batch_size
            s == trainer.config.fit_config.steps_per_epoch
            e == trainer.config.evaluate_config.steps
        IN /\ b \in BatchSizes
           /\ trainer.data.train = train_size
           /\ trainer.data.test >= 1
           /\ IsFloor(s, trainer.data.train, b)
           /\ IsFloor(e, DiamondsTestRows, b)
           /\ trainer.data.test >= DiamondsTestRows
                  => e * b <= trainer.data.test
    /\ pc = "raised" => (exc.call = "TFTrainer" /\ trainer = NoTrainer)

\* train_diamonds(batch_size=1) on a file of 50,000 rows: 13,940 evaluation
\* steps for a test split of 10,000 rows.
C17_Witness ==
    /\ HasDiamondsTrainer
    /\ trainer.config.batch_size = 1
    /\ trainer.data.test = 10000
    /\ trainer.config.evaluate_config.steps = 13940

====
